---- MODULE Spec2Model ----
(***************************************************************************)
(* Inventory ledger / production-flow state machine of Archen:             *)
(* ProductionLog.apply_inventory / rollback_inventory, the work-entry      *)
(* views that create logs, job creation, job deletion and the maintenance  *)
(* rebuild.                                                                *)
(*                                                                         *)
(* Database rows are modelled as one record `db`:                          *)
(*   db.part[p]      Part row (stock_cut, stock_cnc_tools)                 *)
(*   db.material[m]  Material.quantity, counted in half units (the model   *)
(*                   uses quantities that are exact in binary floating     *)
(*                   point, so float(Decimal) conversions lose nothing)    *)
(*   db.stock[pr]    ProductStock row, one counter per product section     *)
(*   db.job[jn]      ProductionJob row keyed by job_number                 *)
(*   db.logs         ProductionLog rows in (logged_at, id) order           *)
(* finished_at is modelled as a flag: FALSE is NULL, TRUE is a timestamp.  *)
(***************************************************************************)
EXTENDS Integers, Sequences, FiniteSets, TLC

VARIABLES db, last, hist, reqs, locks

vars == <<db, last, hist, reqs, locks>>

NONE == "none"

\* ------------------------------------------------------------------ bounds
MaxSteps == 4
MaxPartLogs == 1
MaxQty == 1
MaxAdds == 1
MaxRebuilds == 1
MaxCursor == 4

\* ------------------------------------------------------------------ data
CUTTING == "cutting"
CNC_TOOLS == "cnc_tools"
ASSEMBLY == "assembly"
PACKAGING == "packaging"

ORDER == <<"assembly", "workpage", "undercoating", "painting", "sewing", "upholstery", "packaging">>

Range(s) == {s[i] : i \in 1..Len(s)}

ProductSections == Range(ORDER)

Parts == {"PA", "PB"}
Materials == {"MB"}
Products == {"chair"}
JobNumbers == {"J1", "J2"}

\* BOM of the product: 2 x PA, 1 x PB, 1.5 units of MB (3 half units).
get_components_for_product(product) ==
    IF product = NONE THEN <<>>
    ELSE <<[part |-> "PA", qty |-> 2], [part |-> "PB", qty |-> 1]>>

get_materials_for_product(product) ==
    IF product = NONE THEN <<>>
    ELSE <<[material |-> "MB", qty |-> 3]>>

NoJob ==
    [exists |-> FALSE, product |-> NONE, current_section |-> NONE,
     status |-> "in_progress", job_label |-> "in_progress",
     allowed_sections |-> <<>>, is_external_entry |-> FALSE,
     finished_at |-> FALSE, is_default |-> FALSE]

\* A ProductionLog row.
Log(job, section, part, product, produced, scrap, is_scrap, is_external) ==
    [job |-> job, section |-> section, part |-> part, product |-> product,
     produced_qty |-> produced, scrap_qty |-> scrap,
     is_scrap |-> is_scrap, is_external |-> is_external]

Res(ok, d) == [ok |-> ok, d |-> d]

\* ------------------------------------------------------------------ helpers
\* A flow that keeps the order in which the sections were stored.
allowed_norm_as_stored(allowed) == allowed

\* ORDER filtered to the slugs present in allowed (slugs are lower-case already).
allowed_norm(allowed) == SelectSeq(ORDER, LAMBDA s : s \in Range(allowed))

\* Closing on the last element of allowed_sections as stored, not as ordered.
should_close_unordered(job, section) ==
    \/ (job.allowed_sections # <<>>
        /\ section = job.allowed_sections[Len(job.allowed_sections)])
    \/ section = PACKAGING

should_close(job, section) ==
    LET norm == allowed_norm(job.allowed_sections) IN
    \/ (job.allowed_sections # <<>> /\ norm # <<>> /\ section = norm[Len(norm)])
    \/ section = PACKAGING

\* A closing that promotes every label to completed.
close_job_relabel(job) ==
    LET st == IF job.status = "warranty" THEN "repaired" ELSE "completed"
    IN [job EXCEPT !.status = st, !.job_label = "completed", !.finished_at = TRUE]

\* The closing assignments shared by the external, deposit and normal branches.
close_job(job) ==
    LET st == IF job.status = "warranty" THEN "repaired" ELSE "completed"
        lb == IF job.job_label = "in_progress" /\ st = "completed"
              THEN "completed" ELSE job.job_label
    IN [job EXCEPT !.status = st, !.job_label = lb, !.finished_at = TRUE]

\* job.save(update_fields=[current_section, is_external_entry, status, job_label, finished_at])
save_job(d, jn, job) ==
    [d EXCEPT !.job[jn].current_section = job.current_section,
              !.job[jn].is_external_entry = job.is_external_entry,
              !.job[jn].status = job.status,
              !.job[jn].job_label = job.job_label,
              !.job[jn].finished_at = job.finished_at]

increment_current(d, log) ==
    LET produced == log.produced_qty
        scrap == log.scrap_qty
        increment == IF produced # 0 THEN produced ELSE 1
    IN
    IF log.section \in {CUTTING, CNC_TOOLS} THEN
        IF log.part = NONE THEN Res(TRUE, d)
        ELSE IF log.section = CUTTING THEN
            LET projected == d.part[log.part].stock_cut + increment - scrap IN
            IF projected < 0 THEN Res(FALSE, d)
            ELSE Res(TRUE, [d EXCEPT !.part[log.part].stock_cut = projected])
        ELSE Res(TRUE, [d EXCEPT !.part[log.part].stock_cnc_tools = @ + increment])
    ELSE IF log.product = NONE THEN Res(TRUE, d)
    ELSE IF log.section \in ProductSections
         THEN Res(TRUE, [d EXCEPT !.stock[log.product][log.section] = @ + 1])
         ELSE Res(TRUE, d)

\* A guard that never rejects: what decrement_previous would be without its
\* stock check.
bucket_guard_off(current_val) == FALSE

\* The guard of decrement_previous on a product bucket.
bucket_guard(current_val) == current_val < 1

\* A decrement_previous that debits nothing.
decrement_previous_off(d, log, job) == Res(TRUE, d)

decrement_previous(d, log, job) ==
    LET prev_section == IF log.job = NONE THEN NONE ELSE job.current_section IN
    IF prev_section = NONE THEN Res(TRUE, d)
    ELSE IF log.section = ASSEMBLY THEN Res(TRUE, d)
    ELSE IF prev_section \in {CUTTING, CNC_TOOLS} THEN
        IF log.part = NONE THEN Res(TRUE, d)
        ELSE IF prev_section = CUTTING THEN
            IF d.part[log.part].stock_cut < 1 THEN Res(FALSE, d)
            ELSE Res(TRUE, [d EXCEPT !.part[log.part].stock_cut = @ - 1])
        ELSE
            IF d.part[log.part].stock_cnc_tools < 1 THEN Res(FALSE, d)
            ELSE Res(TRUE, [d EXCEPT !.part[log.part].stock_cnc_tools = @ - 1])
    ELSE IF log.product = NONE THEN Res(TRUE, d)
    ELSE IF prev_section \in ProductSections THEN
        IF bucket_guard(d.stock[log.product][prev_section]) THEN Res(FALSE, d)
        ELSE Res(TRUE, [d EXCEPT !.stock[log.product][prev_section] = @ - 1])
    ELSE Res(TRUE, d)

\* _dec_prev_product_bucket of the deposit branch: no assembly special case.
dec_prev_product_bucket(d, log, job) ==
    LET prev_section == job.current_section IN
    IF prev_section = NONE THEN Res(TRUE, d)
    ELSE IF log.product = NONE THEN Res(TRUE, d)
    ELSE IF prev_section \in ProductSections THEN
        IF d.stock[log.product][prev_section] < 1 THEN Res(FALSE, d)
        ELSE Res(TRUE, [d EXCEPT !.stock[log.product][prev_section] = @ - 1])
    ELSE Res(TRUE, d)

\* The component loop of the assembly consumption: debits part after part and
\* stops at the first shortfall, leaving the earlier debits in place.
RECURSIVE consume_components(_, _, _)
consume_components(d, comps, i) ==
    IF i > Len(comps) THEN Res(TRUE, d)
    ELSE LET comp == comps[i] IN
         IF comp.qty <= 0 \/ comp.part \notin DOMAIN d.part
         THEN consume_components(d, comps, i + 1)
         ELSE IF d.part[comp.part].stock_cnc_tools < comp.qty THEN Res(FALSE, d)
         ELSE consume_components(
                  [d EXCEPT !.part[comp.part].stock_cnc_tools = @ - comp.qty],
                  comps, i + 1)

RECURSIVE consume_materials(_, _, _)
consume_materials(d, mats, i) ==
    IF i > Len(mats) THEN Res(TRUE, d)
    ELSE LET itm == mats[i] IN
         IF itm.material \notin DOMAIN d.material
         THEN consume_materials(d, mats, i + 1)
         ELSE IF d.material[itm.material] < itm.qty THEN Res(FALSE, d)
         ELSE consume_materials(
                  [d EXCEPT !.material[itm.material] = @ - itm.qty], mats, i + 1)

\* A block without the transaction: a failure keeps the writes made so far.
atomic_off(d0, r) == r

\* with transaction.atomic(): an exception inside the block undoes its writes.
atomic(d0, r) == IF r.ok THEN r ELSE Res(FALSE, d0)

\* The BOM block of apply_inventory (scrap-at-assembly and normal-at-assembly).
consume_inputs(d, product) ==
    LET r1 == consume_components(d, get_components_for_product(product), 1)
        r2 == IF r1.ok
              THEN consume_materials(r1.d, get_materials_for_product(product), 1)
              ELSE r1
    IN atomic(d, r2)

ARes(ok, d, job) == [ok |-> ok, d |-> d, job |-> job]

\* A part-only branch whose cnc_tools check leaves scrap_qty out.
apply_part_log_produced_only(d, log) ==
    LET produced == log.produced_qty
        scrap == log.scrap_qty
        row == d.part[log.part]
    IN
    IF log.section = CUTTING THEN
        IF row.stock_cut + produced - scrap < 0 THEN Res(FALSE, d)
        ELSE Res(TRUE, [d EXCEPT !.part[log.part].stock_cut = @ + produced - scrap])
    ELSE IF log.section = CNC_TOOLS THEN
        IF produced > row.stock_cut THEN Res(FALSE, d)
        ELSE Res(TRUE, [d EXCEPT !.part[log.part].stock_cnc_tools = @ + produced,
                                 !.part[log.part].stock_cut = @ - produced - scrap])
    ELSE Res(TRUE, d)

\* Part-only log (part set, product unset).
apply_part_log(d, log) ==
    LET produced == log.produced_qty
        scrap == log.scrap_qty
        row == d.part[log.part]
    IN
    IF log.section = CUTTING THEN
        IF row.stock_cut + produced - scrap < 0 THEN Res(FALSE, d)
        ELSE Res(TRUE, [d EXCEPT !.part[log.part].stock_cut = @ + produced - scrap])
    ELSE IF log.section = CNC_TOOLS THEN
        IF produced + scrap > row.stock_cut THEN Res(FALSE, d)
        ELSE Res(TRUE, [d EXCEPT !.part[log.part].stock_cnc_tools = @ + produced,
                                 !.part[log.part].stock_cut = @ - produced - scrap])
    ELSE Res(TRUE, d)

\* A scrap branch that moves the job on without closing it.
scrap_job_open(job, section) ==
    [job EXCEPT !.current_section = section, !.is_external_entry = FALSE]

\* The job fields every scrap branch assigns.
scrap_job(job, section) ==
    [job EXCEPT !.status = "scrapped", !.finished_at = TRUE,
                !.current_section = section, !.is_external_entry = FALSE,
                !.job_label = "scrapped"]

\* The tail of the deposit-normal and normal branches.
advance_job(job, section, closing) ==
    LET j1 == IF closing THEN close_job(job) ELSE job
        j2 == [j1 EXCEPT !.current_section = section, !.is_external_entry = FALSE]
    IN IF j2.status = "completed" /\ j2.job_label = "in_progress"
       THEN [j2 EXCEPT !.job_label = "completed"] ELSE j2

\* The job object apply_inventory saves when it succeeds.
job_after(log, job) ==
    IF log.is_external THEN
        LET j1 == [job EXCEPT !.current_section = log.section, !.is_external_entry = TRUE]
        IN IF should_close(job, log.section) THEN close_job(j1) ELSE j1
    ELSE IF job.job_label = "deposit" THEN
        IF log.is_scrap THEN scrap_job(job, log.section)
        ELSE advance_job(job, log.section, should_close(job, log.section))
    ELSE IF log.is_scrap THEN scrap_job(job, log.section)
    ELSE advance_job(job, log.section,
                     log.product # NONE /\ should_close(job, log.section))

\* An external branch that also debits the previous section's bucket.
apply_external_debiting(d, log, job) ==
    LET r0 == decrement_previous(d, log, job)
        r == IF r0.ok THEN increment_current(r0.d, log) ELSE r0
        j1 == [job EXCEPT !.current_section = log.section, !.is_external_entry = TRUE]
        j2 == IF should_close(job, log.section) THEN close_job(j1) ELSE j1
    IN IF r.ok THEN ARes(TRUE, save_job(r.d, log.job, j2), j2) ELSE ARes(FALSE, r.d, job)

apply_external(d, log, job) ==
    LET r == increment_current(d, log)
        j1 == [job EXCEPT !.current_section = log.section, !.is_external_entry = TRUE]
        j2 == IF should_close(job, log.section) THEN close_job(j1) ELSE j1
    IN IF r.ok THEN ARes(TRUE, save_job(r.d, log.job, j2), j2) ELSE ARes(FALSE, r.d, job)

\* A deposit branch that consumes the BOM on entering assembly.
apply_deposit_consuming(d, log, job, first_entry) ==
    LET r0 == IF first_entry THEN Res(TRUE, d) ELSE dec_prev_product_bucket(d, log, job)
        r1 == IF r0.ok /\ log.section = ASSEMBLY THEN consume_inputs(r0.d, log.product) ELSE r0
    IN
    IF ~r1.ok THEN ARes(FALSE, r1.d, job)
    ELSE IF log.is_scrap THEN
        LET j == scrap_job(job, log.section) IN ARes(TRUE, save_job(r1.d, log.job, j), j)
    ELSE
        LET r2 == increment_current(r1.d, log)
            j == advance_job(job, log.section, should_close(job, log.section))
        IN IF r2.ok THEN ARes(TRUE, save_job(r2.d, log.job, j), j) ELSE ARes(FALSE, r2.d, job)

apply_deposit(d, log, job, first_entry) ==
    LET r1 == IF first_entry THEN Res(TRUE, d) ELSE dec_prev_product_bucket(d, log, job) IN
    IF ~r1.ok THEN ARes(FALSE, r1.d, job)
    ELSE IF log.is_scrap THEN
        LET j == scrap_job(job, log.section) IN ARes(TRUE, save_job(r1.d, log.job, j), j)
    ELSE
        LET r2 == increment_current(r1.d, log)
            j == advance_job(job, log.section, should_close(job, log.section))
        IN IF r2.ok THEN ARes(TRUE, save_job(r2.d, log.job, j), j) ELSE ARes(FALSE, r2.d, job)

\* A scrap branch whose assembly case consumes the parts but not the materials.
apply_scrap_parts_only(d, log, job) ==
    LET comps == get_components_for_product(log.product)
        r == IF log.section = ASSEMBLY
             THEN atomic(d, consume_components(d, comps, 1))
             ELSE decrement_previous(d, log, job)
        j == scrap_job(job, log.section)
    IN IF r.ok THEN ARes(TRUE, save_job(r.d, log.job, j), j) ELSE ARes(FALSE, r.d, job)

apply_scrap(d, log, job) ==
    LET r == IF log.section = ASSEMBLY THEN consume_inputs(d, log.product)
             ELSE decrement_previous(d, log, job)
        j == scrap_job(job, log.section)
    IN IF r.ok THEN ARes(TRUE, save_job(r.d, log.job, j), j) ELSE ARes(FALSE, r.d, job)

apply_normal(d, log, job, first_entry) ==
    LET r1 == IF first_entry THEN Res(TRUE, d) ELSE decrement_previous(d, log, job)
        r2 == IF ~r1.ok THEN r1
              ELSE IF log.product # NONE /\ log.section = ASSEMBLY /\ ~log.is_external
                   THEN consume_inputs(r1.d, log.product)
                   ELSE r1
        r3 == IF ~r2.ok THEN r2 ELSE increment_current(r2.d, log)
        closing == log.product # NONE /\ should_close(job, log.section)
        j == advance_job(job, log.section, closing)
    IN IF r3.ok THEN ARes(TRUE, save_job(r3.d, log.job, j), j) ELSE ARes(FALSE, r3.d, job)

\* ProductionLog.apply_inventory with self.job = job (the in-memory job object).
\* ok = FALSE is a raised exception; d is then the database as the writes made
\* before the exception left it (the BOM block undoes its own writes).
apply_inventory(d, log, job) ==
    IF log.part # NONE /\ log.product = NONE THEN
        LET r == apply_part_log(d, log) IN ARes(r.ok, r.d, job)
    ELSE IF log.job = NONE THEN ARes(TRUE, d, job)
    ELSE LET first_entry == job.current_section = NONE IN
         IF log.is_external THEN apply_external(d, log, job)
         ELSE IF job.job_label = "deposit" THEN apply_deposit(d, log, job, first_entry)
         ELSE IF log.is_scrap THEN apply_scrap(d, log, job)
         ELSE apply_normal(d, log, job, first_entry)

\* ------------------------------------------------------------------ rollback
adjust_product_stock(d, product, section_slug, delta) ==
    IF product = NONE \/ section_slug = NONE \/ delta = 0 THEN d
    ELSE IF section_slug \notin ProductSections THEN d
    ELSE [d EXCEPT !.stock[product][section_slug] = @ + delta]

RECURSIVE restore_components(_, _, _)
restore_components(d, comps, i) ==
    IF i > Len(comps) THEN d
    ELSE LET comp == comps[i] IN
         IF comp.qty <= 0 \/ comp.part \notin DOMAIN d.part
         THEN restore_components(d, comps, i + 1)
         ELSE restore_components(
                  [d EXCEPT !.part[comp.part].stock_cnc_tools = @ + comp.qty],
                  comps, i + 1)

RECURSIVE restore_materials(_, _, _)
restore_materials(d, mats, i) ==
    IF i > Len(mats) THEN d
    ELSE LET itm == mats[i] IN
         IF itm.material \notin DOMAIN d.material
         THEN restore_materials(d, mats, i + 1)
         ELSE restore_materials(
                  [d EXCEPT !.material[itm.material] = @ + itm.qty], mats, i + 1)

restore_consumed_inputs(d, product) ==
    restore_materials(
        restore_components(d, get_components_for_product(product), 1),
        get_materials_for_product(product), 1)

reverse_decrement_previous(d, log, prev_section) ==
    IF prev_section = NONE THEN d
    ELSE IF log.section = ASSEMBLY THEN d
    ELSE IF prev_section \in {CUTTING, CNC_TOOLS} THEN
        IF log.part = NONE THEN d
        ELSE IF prev_section = CUTTING
             THEN [d EXCEPT !.part[log.part].stock_cut = @ + 1]
             ELSE [d EXCEPT !.part[log.part].stock_cnc_tools = @ + 1]
    ELSE adjust_product_stock(d, log.product, prev_section, 1)

reverse_part_log(d, log) ==
    LET produced == log.produced_qty
        scrap == log.scrap_qty
    IN
    IF log.part = NONE \/ log.product # NONE THEN d
    ELSE IF log.section = CUTTING
         THEN [d EXCEPT !.part[log.part].stock_cut = @ - produced + scrap]
    ELSE IF log.section = CNC_TOOLS
         THEN [d EXCEPT !.part[log.part].stock_cnc_tools = @ - produced,
                        !.part[log.part].stock_cut = @ + produced + scrap]
    ELSE d

\* The label rollback_inventory dispatches on: the job row as it is now.
rollback_label(d, log) == d.job[log.job].job_label

\* ProductionLog.rollback_inventory(prev_section); log.job is read from the
\* database as it is when the rollback runs.
rollback_inventory(d, log, prev_section) ==
    IF log.part # NONE /\ log.product = NONE THEN reverse_part_log(d, log)
    ELSE IF log.job = NONE THEN d
    ELSE LET first_entry == prev_section = NONE
             is_deposit == rollback_label(d, log) = "deposit"
         IN
         IF log.is_external THEN adjust_product_stock(d, log.product, log.section, -1)
         ELSE IF is_deposit THEN
            IF log.is_scrap THEN
                IF first_entry THEN d
                ELSE adjust_product_stock(d, log.product, prev_section, 1)
            ELSE adjust_product_stock(
                     IF first_entry THEN d
                     ELSE adjust_product_stock(d, log.product, prev_section, 1),
                     log.product, log.section, -1)
         ELSE IF log.is_scrap THEN
            IF log.section = ASSEMBLY THEN restore_consumed_inputs(d, log.product)
            ELSE IF first_entry THEN d
            ELSE reverse_decrement_previous(d, log, prev_section)
         ELSE
            LET d1 == IF first_entry THEN d
                      ELSE reverse_decrement_previous(d, log, prev_section)
                d2 == IF log.section = ASSEMBLY /\ ~log.is_external
                      THEN restore_consumed_inputs(d1, log.product) ELSE d1
            IN adjust_product_stock(d2, log.product, log.section, -1)

\* ------------------------------------------------------------------ views
Clients == {"c1", "c2"}

SubmitSections == {"assembly", "painting", "packaging"}

has_log(d, jn, section) ==
    \E i \in 1..Len(d.logs) : d.logs[i].job = jn /\ d.logs[i].section = section

\* ProductionJob.objects.get_or_create(job_number=..., defaults={product: ...})
get_or_create_job(d, jn, product) ==
    IF d.job[jn].exists THEN
        IF d.job[jn].product = NONE /\ product # NONE
        THEN [d EXCEPT !.job[jn].product = product] ELSE d
    ELSE [d EXCEPT !.job[jn] = [NoJob EXCEPT !.exists = TRUE, !.product = product]]

missing_parts(d, product) ==
    LET comps == get_components_for_product(product) IN
    \E i \in 1..Len(comps) :
        /\ comps[i].qty > 0
        /\ comps[i].part \in DOMAIN d.part
        /\ d.part[comps[i].part].stock_cnc_tools < comps[i].qty

missing_materials(d, product) ==
    LET mats == get_materials_for_product(product) IN
    \E i \in 1..Len(mats) :
        /\ mats[i].material \in DOMAIN d.material
        /\ d.material[mats[i].material] < mats[i].qty

\* The section before `section` in the canonical-ordered allowed list, or NONE.
gating_prev(allowed, section) ==
    LET norm == allowed_norm(allowed)
        idxs == {i \in 1..Len(norm) : norm[i] = section}
    IN IF idxs = {} THEN NONE
       ELSE LET idx == CHOOSE i \in idxs : TRUE IN
            IF idx > 1 THEN norm[idx - 1] ELSE NONE

\* The manager view's check of the previous allowed section.
manager_gating(d, jn, allowed, section) ==
    /\ allowed # <<>>
    /\ gating_prev(allowed, section) # NONE
    /\ ~has_log(d, jn, gating_prev(allowed, section))

\* Validation of a product-section submission, in the order of the view.
validate(d, path, jn, product, section, is_external) ==
    LET allowed == d.job[jn].allowed_sections IN
    IF allowed # <<>> /\ section \notin Range(allowed) THEN "not_allowed"
    ELSE IF path = "manager" /\ manager_gating(d, jn, allowed, section) THEN "prev_missing"
    ELSE IF path = "worker" /\ has_log(d, jn, section) THEN "duplicate"
    ELSE IF section = ASSEMBLY /\ ~is_external /\ missing_parts(d, product)
         THEN "missing_parts"
    ELSE IF section = ASSEMBLY /\ ~is_external /\ missing_materials(d, product)
         THEN "missing_materials"
    ELSE "pass"

\* ProductionJob.objects.filter(is_default=True).exclude(job_number=jn).update(is_default=False)
clear_default(d, jn) ==
    [d EXCEPT !.job = [k \in JobNumbers |->
        IF k # jn /\ d.job[k].exists THEN [d.job[k] EXCEPT !.is_default = FALSE]
        ELSE d.job[k]]]

\* job_obj.is_default = True; job_obj.save(update_fields=['is_default'])
own_default(d, jn) == [d EXCEPT !.job[jn].is_default = TRUE]

\* The is_default block of the views: the update, then the save.
set_default(d, jn) == own_default(clear_default(d, jn), jn)

\* The block after the log creation: job_obj.save(update_fields=[status, job_label, finished_at])
mark_scrapped(d, jn) ==
    [d EXCEPT !.job[jn].status = "scrapped", !.job[jn].job_label = "scrapped",
              !.job[jn].finished_at = TRUE]

\* A table without the unique constraint.
unique_off(d, log) == FALSE

\* The unique constraint production_log_unique_job_section.
unique_violation(d, log) == log.job # NONE /\ has_log(d, log.job, log.section)

VRes(d, outcome) == [d |-> d, outcome |-> outcome]

\* The worker view's handling of a failed log creation: the atomic block has
\* undone the log row and the stock writes, then the code after the try runs.
worker_after_failure(d_before, jn, is_scrap) ==
    IF is_scrap THEN mark_scrapped(d_before, jn) ELSE d_before

\* The manager view's handling of a failed apply_inventory: no transaction
\* surrounds the creation, the row saved before apply_inventory stays.
manager_after_failure(d_before, d_failed) == d_failed

\* work_entry_view (path = "worker") and work_entry_manager_view (path =
\* "manager") for a product section, as one handler.
work_entry(d, path, jn, product, section, is_scrap, is_external) ==
    LET d1 == get_or_create_job(d, jn, product)
        v == validate(d1, path, jn, product, section, is_external)
        d2 == set_default(d1, jn)
        job_obj == d2.job[jn]
        deposit == job_obj.job_label = "deposit"
        log == Log(jn, section, NONE, product, 0, 0, is_scrap,
                   IF deposit THEN FALSE ELSE is_external)
        d3 == [d2 EXCEPT !.logs = Append(@, log)]
        r == apply_inventory(d3, log, job_obj)
    IN
    IF v # "pass" THEN VRes(d1, v)
    ELSE IF deposit /\ is_external THEN VRes(d2, "deposit_external")
    ELSE IF unique_violation(d2, log) THEN
        VRes(IF path = "worker" THEN worker_after_failure(d2, jn, is_scrap) ELSE d2,
             "integrity_error")
    ELSE IF ~r.ok THEN
        VRes(IF path = "worker" THEN worker_after_failure(d2, jn, is_scrap)
             ELSE manager_after_failure(d2, r.d),
             "inventory_error")
    ELSE VRes(IF is_scrap THEN mark_scrapped(r.d, jn) ELSE r.d, "ok")

\* The part-section branch of both views (cutting, cnc_tools): a job-less log.
work_entry_part(d, path, part, section, produced, scrap) ==
    LET log == Log(NONE, section, part, NONE, produced, scrap, FALSE, FALSE)
        d1 == [d EXCEPT !.logs = Append(@, log)]
        r == apply_inventory(d1, log, NoJob)
    IN IF r.ok THEN VRes(r.d, "ok")
       ELSE VRes(IF path = "worker" THEN d ELSE r.d, "inventory_error")

\* ------------------------------------------------------------------ jobs
initial_status(job_label) ==
    IF job_label \in {"in_progress", "deposit", "repaired"} THEN "in_progress"
    ELSE IF job_label = "warranty" THEN "warranty"
    ELSE job_label

\* post_save handler of ProductionJob, created = True.
apply_label_side_effects(d, jn) ==
    LET job == d.job[jn]
        label == job.job_label
        allowed == job.allowed_sections
        n == Len(allowed)
    IN
    IF job.product = NONE THEN d
    ELSE IF label = "deposit" THEN
        IF n = 1 /\ allowed[1] \in ProductSections
        THEN [d EXCEPT !.stock[job.product][allowed[1]] = @ + 1,
                       !.job[jn].status = "in_progress",
                       !.job[jn].finished_at = TRUE]
        ELSE d
    ELSE IF label = "scrapped" THEN
        IF n >= 1 THEN
            LET prev == IF n = 1 THEN allowed[n] ELSE allowed[n - 1] IN
            IF prev \in ProductSections
            THEN [d EXCEPT !.stock[job.product][prev] = @ - 1,
                           !.job[jn].status = "scrapped",
                           !.job[jn].finished_at = TRUE]
            ELSE d
        ELSE d
    ELSE IF label = "completed" THEN
        LET prev == IF n >= 1 THEN allowed[n] ELSE job.current_section
            d1 == [d EXCEPT !.stock[job.product][PACKAGING] = @ + 1]
            d2 == IF prev \in ProductSections /\ prev # PACKAGING
                  THEN [d1 EXCEPT !.stock[job.product][prev] = @ - 1] ELSE d1
        IN [d2 EXCEPT !.job[jn].status = "completed", !.job[jn].finished_at = TRUE]
    ELSE d

\* job_add_view, POST with a valid form.
job_add(d, jn, product, job_label, allowed) ==
    IF d.job[jn].exists THEN VRes(d, "duplicate")
    ELSE
        LET st == initial_status(job_label)
            job_obj == [NoJob EXCEPT !.exists = TRUE, !.product = product,
                                     !.status = st, !.job_label = job_label,
                                     !.allowed_sections = allowed,
                                     !.is_default = TRUE,
                                     !.finished_at = st \in {"scrapped", "completed"}]
            d1 == [d EXCEPT !.job = [k \in JobNumbers |->
                      IF k = jn THEN job_obj
                      ELSE IF d.job[k].exists THEN [d.job[k] EXCEPT !.is_default = FALSE]
                      ELSE d.job[k]]]
        IN VRes(apply_label_side_effects(d1, jn), "ok")

\* _collect_log_history: positions in db.logs of the job's logs, in order; the
\* previous section of each is the section of the one before it.
job_log_positions(d, jn) ==
    SelectSeq([i \in 1..Len(d.logs) |-> i], LAMBDA i : d.logs[i].job = jn)

prev_section_of(d, positions, k) ==
    IF k = 1 THEN NONE ELSE d.logs[positions[k - 1]].section

RECURSIVE rollback_from(_, _, _)
rollback_from(d, positions, k) ==
    IF k = 0 THEN d
    ELSE rollback_from(
             rollback_inventory(d, d.logs[positions[k]], prev_section_of(d, positions, k)),
             positions, k - 1)

\* delete_job_completely: roll the logs back newest first, delete them, delete
\* the job.
delete_job_completely(d, jn) ==
    LET positions == job_log_positions(d, jn)
        d1 == rollback_from(d, positions, Len(positions))
    IN [d1 EXCEPT !.logs = SelectSeq(d1.logs, LAMBDA l : l.job # jn),
                  !.job[jn] = NoJob]

\* ------------------------------------------------------------------ maintenance
\* Part.objects.update(stock_cut=0, stock_cnc_tools=0) and the ProductStock
\* update of the rebuild_stocks action.
RebuildZeroedSections ==
    {"undercoating", "painting", "sewing", "upholstery", "assembly", "packaging"}

rebuild_zero(d) ==
    [d EXCEPT !.part = [p \in Parts |-> [stock_cut |-> 0, stock_cnc_tools |-> 0]],
              !.stock = [pr \in Products |-> [s \in ProductSections |->
                            IF s \in RebuildZeroedSections THEN 0 ELSE d.stock[pr][s]]]]

RECURSIVE replay(_, _)
replay(d, i) ==
    IF i > Len(d.logs) THEN Res(TRUE, d)
    ELSE LET log == d.logs[i]
             job == IF log.job = NONE THEN NoJob ELSE d.job[log.job]
             r == apply_inventory(d, log, job)
         IN IF r.ok THEN replay(r.d, i + 1) ELSE Res(FALSE, r.d)

\* maintenance_action(action = rebuild_stocks) under @transaction.atomic: an
\* exception in the replay undoes the whole request.
rebuild_stocks(d) ==
    LET r == replay(rebuild_zero(d), 1) IN
    IF r.ok THEN VRes(r.d, "ok") ELSE VRes(d, "error")

\* ------------------------------------------------------------------ state
\* The stock counters of the database.
StockStore(d) == [part |-> d.part, material |-> d.material, stock |-> d.stock]

ZeroStore ==
    [part |-> [p \in Parts |-> [stock_cut |-> 0, stock_cnc_tools |-> 0]],
     material |-> [m \in Materials |-> 0],
     stock |-> [pr \in Products |-> [s \in ProductSections |-> 0]]]

\* Opening part and material stocks: cnc_tools stock of PA and PB and the
\* quantity of MB (half units).
Seeds ==
    {[pa |-> 2, pb |-> 1, mb |-> 3],
     [pa |-> 4, pb |-> 2, mb |-> 3]}

\* The part logs that produced the opening part stock: cut, then machined; one
\* cut PA is still waiting for machining.
SeedLogs(seed) ==
    <<Log(NONE, CUTTING, "PA", NONE, seed.pa + 1, 0, FALSE, FALSE),
      Log(NONE, CNC_TOOLS, "PA", NONE, seed.pa, 0, FALSE, FALSE),
      Log(NONE, CUTTING, "PB", NONE, seed.pb, 0, FALSE, FALSE),
      Log(NONE, CNC_TOOLS, "PB", NONE, seed.pb, 0, FALSE, FALSE)>>

SeedDb(seed) ==
    [part |-> [p \in Parts |-> [stock_cut |-> IF p = "PA" THEN 1 ELSE 0,
                                stock_cnc_tools |-> IF p = "PA" THEN seed.pa ELSE seed.pb]],
     material |-> [m \in Materials |-> seed.mb],
     stock |-> [pr \in Products |-> [s \in ProductSections |-> 0]],
     job |-> [jn \in JobNumbers |-> NoJob],
     logs |-> SeedLogs(seed)]

\* Descriptor of the request handled last.
Last(op, job, section, outcome) ==
    [op |-> op, job |-> job, section |-> section, outcome |-> outcome]

NoLast == Last("init", NONE, NONE, NONE)

\* Bookkeeping for the properties: per job the stock store before its first
\* accepted movement (base), whether only that job's accepted movements touched
\* the store since (clean), whether the store is still the product of applied
\* logs alone (pure), the store before the job's accepted movement into each
\* section (before), the database a run started from (db0), the previous
\* section handed to a rollback (prev), the arguments and the return value of
\* a direct call (call, ret), the current_section the job had when its
\* accepted movement into each section was applied (read), whether a rejected
\* submission left a log row behind (stray), and the counters that bound a run.
InitHist(d0) ==
    [db0 |-> d0, prev |-> NONE,
     base |-> [jn \in JobNumbers |-> ZeroStore],
     has_base |-> [jn \in JobNumbers |-> FALSE],
     clean |-> [jn \in JobNumbers |-> FALSE],
     pure |-> TRUE,
     before |-> [jn \in JobNumbers |-> [sec \in ProductSections |-> ZeroStore]],
     call |-> <<>>, ret |-> <<>>,
     read |-> [jn \in JobNumbers |-> [sec \in ProductSections |-> NONE]],
     stray |-> FALSE,
     nsteps |-> 0, npartlogs |-> 0, nadds |-> 0, nrebuilds |-> 0]

NoLog == Log(NONE, NONE, NONE, NONE, 0, 0, FALSE, FALSE)
NoRow == [sec \in ProductSections |-> 0]
NoPartRow == [stock_cut |-> 0, stock_cnc_tools |-> 0]

\* A request of a client: what was posted, where the request stands (pc), the
\* objects it holds in memory (job, log, row, prow), its uncommitted writes
\* (pend), its outcome, and whether it wrote a stock counter.
Req(pc, kind, path, jn, section, is_scrap, part, produced, scrap) ==
    [pc |-> pc, kind |-> kind, path |-> path, jn |-> jn, section |-> section,
     is_scrap |-> is_scrap, part |-> part, produced |-> produced, scrap |-> scrap,
     job |-> NoJob, log |-> NoLog, plan |-> <<>>, row |-> NoRow, prow |-> NoPartRow,
     pend |-> <<>>, outcome |-> NONE, wrote |-> FALSE]

IdleReq == Req("idle", NONE, NONE, NONE, NONE, FALSE, NONE, 0, 0)

IdleReqs == [c \in Clients |-> IdleReq]

hist_movement(h, d, d2, jn, outcome) ==
    LET fresh == ~d.job[jn].exists \/ ~h.has_base[jn]
        moved == outcome = "ok"
        same == StockStore(d2) = StockStore(d)
        rowadded == Len(d2.logs) > Len(d.logs)
    IN [h EXCEPT
         !.has_base[jn] = moved \/ ~fresh,
         !.base[jn] = IF moved /\ fresh THEN StockStore(d)
                      ELSE IF fresh THEN ZeroStore ELSE h.base[jn],
         !.clean = [k \in JobNumbers |->
                      IF k = jn THEN
                          IF moved /\ fresh THEN TRUE
                          ELSE ~fresh /\ h.clean[k] /\ (moved \/ (same /\ ~rowadded))
                      ELSE h.clean[k] /\ ~moved /\ same],
         !.pure = @ /\ (moved \/ (same /\ ~rowadded)),
         !.nsteps = @ + 1]

hist_other(h, d, d2) ==
    [h EXCEPT !.clean = [k \in JobNumbers |->
                            h.clean[k] /\ StockStore(d2) = StockStore(d)],
              !.pure = @ /\ StockStore(d2) = StockStore(d),
              !.nsteps = @ + 1]

\* ------------------------------------------------------------------ actions
Init ==
    /\ \E seed \in Seeds : db = SeedDb(seed) /\ hist = InitHist(SeedDb(seed))
    /\ last = NoLast
    /\ reqs = IdleReqs
    /\ locks = {}

\* Job numbers typed into the work-entry forms, and parts picked there.
WorkedJobs == {"J1"}
WorkedParts == {"PA"}

\* (job_number, job_label, allowed_sections) triples posted to the job creation
\* form: J1 is created open, J2 is created with a label that moves stock.
AddChoices ==
    {<<"J1", "in_progress", <<"painting", "assembly">>>>,
     <<"J1", "warranty", <<"painting", "assembly">>>>,
     <<"J1", "deposit", <<"painting", "assembly">>>>,
     <<"J2", "deposit", <<"painting">>>>,
     <<"J2", "scrapped", <<"painting">>>>,
     <<"J2", "completed", <<"painting">>>>}

JobAdd(jn, label, allowed) ==
    /\ hist.nsteps < MaxSteps
    /\ hist.nadds < MaxAdds
    /\ LET r == job_add(db, jn, "chair", label, allowed) IN
       /\ db' = r.d
       /\ last' = Last("job_add", jn, NONE, r.outcome)
       /\ hist' = LET h == hist_other(hist, db, r.d) IN
                  IF r.outcome = "ok"
                  THEN [h EXCEPT !.nadds = @ + 1, !.has_base[jn] = FALSE,
                                 !.base[jn] = ZeroStore, !.clean[jn] = FALSE]
                  ELSE h
    /\ UNCHANGED <<reqs, locks>>

WorkEntry(path, jn, section, is_scrap, is_external) ==
    /\ ~(is_scrap /\ is_external)
    /\ hist.nsteps < MaxSteps
    /\ LET r == work_entry(db, path, jn, "chair", section, is_scrap, is_external) IN
       /\ db' = r.d
       /\ last' = Last("work_entry", jn, section, r.outcome)
       /\ hist' = hist_movement(hist, db, r.d, jn, r.outcome)
    /\ UNCHANGED <<reqs, locks>>

WorkEntryPart(path, part, section, produced, scrap) ==
    /\ produced + scrap > 0
    /\ hist.nsteps < MaxSteps
    /\ hist.npartlogs < MaxPartLogs
    /\ LET r == work_entry_part(db, path, part, section, produced, scrap) IN
       /\ db' = r.d
       /\ last' = Last("work_entry_part", NONE, section, r.outcome)
       /\ hist' = [hist_other(hist, db, r.d) EXCEPT
                      !.npartlogs = @ + 1,
                      !.pure = hist.pure /\ (r.outcome = "ok" \/ r.d = db)]
    /\ UNCHANGED <<reqs, locks>>

\* job_bulk_delete_view for one selected job.
DeleteJob(jn) ==
    /\ hist.nsteps < MaxSteps
    /\ db.job[jn].exists
    /\ LET d2 == delete_job_completely(db, jn) IN
       /\ db' = d2
       /\ last' = Last("delete_job", jn, NONE, "ok")
       /\ hist' = [hist_other(hist, db, d2) EXCEPT !.clean[jn] = hist.clean[jn]]
    /\ UNCHANGED <<reqs, locks>>

RebuildStocks ==
    /\ hist.nsteps < MaxSteps
    /\ hist.nrebuilds < MaxRebuilds
    /\ LET r == rebuild_stocks(db) IN
       /\ db' = r.d
       /\ last' = Last("rebuild_stocks", NONE, NONE, r.outcome)
       /\ hist' = [hist_other(hist, db, r.d) EXCEPT !.nrebuilds = @ + 1]
    /\ UNCHANGED <<reqs, locks>>

Next ==
    \/ \E c \in AddChoices : JobAdd(c[1], c[2], c[3])
    \/ \E path \in {"worker", "manager"}, jn \in WorkedJobs, section \in SubmitSections,
          is_scrap \in BOOLEAN, is_external \in BOOLEAN :
           WorkEntry(path, jn, section, is_scrap, is_external)
    \/ \E path \in {"worker", "manager"}, part \in WorkedParts, section \in {CUTTING, CNC_TOOLS},
          produced \in 0..MaxQty, scrap \in 0..MaxQty :
           WorkEntryPart(path, part, section, produced, scrap)
    \/ \E jn \in JobNumbers : DeleteJob(jn)
    \/ RebuildStocks

Spec == Init /\ [][Next]_vars

\* ------------------------------------------------------------------ single log
\* One log applied to, then rolled back from, a database drawn from a grid of
\* stock levels and job positions.
LawJob == "J1"

LawJobStates ==
    {[NoJob EXCEPT !.exists = TRUE, !.product = "chair", !.job_label = lb,
                   !.status = initial_status(lb), !.current_section = cur,
                   !.allowed_sections = al] :
        lb \in {"in_progress", "warranty", "deposit"},
        cur \in {NONE, "assembly", "painting"},
        al \in {<<>>, <<"painting", "assembly">>}}

LawDbs ==
    {[part |-> [p \in Parts |->
                  IF p = "PA" THEN [stock_cut |-> cut, stock_cnc_tools |-> cnc]
                  ELSE [stock_cut |-> 0, stock_cnc_tools |-> 1]],
      material |-> [m \in Materials |-> mb],
      stock |-> [pr \in Products |-> [sec \in ProductSections |->
                    IF sec = "assembly" THEN asm
                    ELSE IF sec = "painting" THEN pnt ELSE 0]],
      job |-> [jn \in JobNumbers |-> IF jn = LawJob THEN j ELSE NoJob],
      logs |-> <<>>] :
        cut \in 0..MaxQty, cnc \in {0, 2}, mb \in {0, 3},
        asm \in 0..1, pnt \in 0..1, j \in LawJobStates}

LawLogs ==
    {Log(LawJob, sec, NONE, "chair", 0, 0, sc, ex) :
        sec \in SubmitSections, sc \in BOOLEAN, ex \in BOOLEAN}
    \cup {Log(NONE, sec, "PA", NONE, pq, sq, FALSE, FALSE) :
        sec \in {CUTTING, CNC_TOOLS}, pq \in 0..MaxQty, sq \in 0..MaxQty}

InitLaw ==
    /\ \E d \in LawDbs : db = d /\ hist = InitHist(d)
    /\ last = NoLast
    /\ reqs = IdleReqs
    /\ locks = {}

\* ProductionLog.objects.create(...): the row is saved, then apply_inventory runs.
LawApply(log) ==
    /\ last.op = "init"
    /\ ~(log.is_scrap /\ log.is_external)
    /\ log.produced_qty + log.scrap_qty > 0 \/ log.part = NONE
    /\ LET job == IF log.job = NONE THEN NoJob ELSE db.job[log.job]
           r == apply_inventory([db EXCEPT !.logs = Append(@, log)], log, job)
       IN /\ db' = r.d
          /\ last' = Last("law_apply", log.job, log.section,
                          IF r.ok THEN "ok" ELSE "inventory_error")
          /\ hist' = [hist EXCEPT !.prev = job.current_section]
    /\ UNCHANGED <<reqs, locks>>

\* log.rollback_inventory(prev_section) with the job's current_section before
\* the apply.
LawRollback ==
    /\ last.op = "law_apply" /\ last.outcome = "ok"
    /\ LET log == db.logs[Len(db.logs)] IN
       /\ db' = rollback_inventory(db, log, hist.prev)
       /\ last' = Last("law_rollback", log.job, log.section, "ok")
    /\ UNCHANGED <<hist, reqs, locks>>

NextLaw ==
    \/ \E log \in LawLogs : LawApply(log)
    \/ LawRollback

SpecLaw == InitLaw /\ [][NextLaw]_vars

\* ------------------------------------------------------------------ concurrency
\* Two requests run at once against one PostgreSQL database (READ COMMITTED).
\* A request is a sequence of statements; each action below is one statement
\* or one block that row locks make indivisible.  The worker view runs the log
\* creation inside transaction.atomic(): its writes (pend) are invisible to the
\* other request and lock the rows they touch until the commit.  The manager
\* view runs in autocommit: each write is committed at once.

Write(t, k, f, v) == [t |-> t, k |-> k, f |-> f, v |-> v]

apply_write(d, w) ==
    IF w.t = "stock" THEN [d EXCEPT !.stock[w.k][w.f] = w.v]
    ELSE IF w.t = "part" THEN [d EXCEPT !.part[w.k][w.f] = w.v]
    ELSE IF w.t = "material" THEN [d EXCEPT !.material[w.k] = w.v]
    ELSE IF w.t = "job" THEN save_job(d, w.k, w.v)
    ELSE [d EXCEPT !.logs = Append(@, w.v)]

RECURSIVE apply_writes(_, _, _)
apply_writes(d, ws, i) ==
    IF i > Len(ws) THEN d ELSE apply_writes(apply_write(d, ws[i]), ws, i + 1)

\* The row a write locks.
RowOf(w) ==
    IF w.t = "stock" THEN <<"stock", w.k>>
    ELSE IF w.t = "part" THEN <<"part", w.k>>
    ELSE IF w.t = "material" THEN <<"material", w.k>>
    ELSE IF w.t = "job" THEN <<"job", w.k>>
    ELSE <<"log", w.v.job, w.v.section>>

Free(c, row) == \A l \in locks : l.row = row => l.c = c

\* Part logs carry no job: no unique key, nothing another insert waits for.
Lockable(w) == ~(w.t = "log" /\ w.v.job = NONE)

CanWrite(c, ws) == \A i \in 1..Len(ws) : Lockable(ws[i]) => Free(c, RowOf(ws[i]))

LocksOf(c, ws) == {[c |-> c, row |-> RowOf(ws[i])] : i \in {k \in 1..Len(ws) : Lockable(ws[k])}}

PartOrder == <<"PA", "PB">>
MaterialOrder == <<"MB">>

\* The UPDATE statements that take the stock counters from d1 to d2: save()
\* with update_fields writes the value the instance holds.
StockWrites(d1, d2) ==
    LET changed == SelectSeq(ORDER, LAMBDA sec : d1.stock["chair"][sec] # d2.stock["chair"][sec])
    IN [i \in 1..Len(changed) |->
          Write("stock", "chair", changed[i], d2.stock["chair"][changed[i]])]

PartWrites(d1, d2, field) ==
    LET changed == SelectSeq(PartOrder, LAMBDA p : d1.part[p][field] # d2.part[p][field])
    IN [i \in 1..Len(changed) |-> Write("part", changed[i], field, d2.part[changed[i]][field])]

MaterialWrites(d1, d2) ==
    LET changed == SelectSeq(MaterialOrder, LAMBDA m : d1.material[m] # d2.material[m])
    IN [i \in 1..Len(changed) |-> Write("material", changed[i], NONE, d2.material[changed[i]])]

\* The statements apply_inventory issues for a product log, in order: "dec"
\* and "inc" read the ProductStock row and then save one field of it, "bom" is
\* the locked consumption block, "save" is job.save().
plan(log, job) ==
    LET first_entry == job.current_section = NONE
        dec == IF first_entry THEN <<>> ELSE <<"dec">>
    IN
    IF log.is_external THEN <<"inc", "save">>
    ELSE IF job.job_label = "deposit" THEN
        dec \o (IF log.is_scrap THEN <<>> ELSE <<"inc">>) \o <<"save">>
    ELSE IF log.is_scrap THEN
        (IF log.section = ASSEMBLY THEN <<"bom">> ELSE <<"dec">>) \o <<"save">>
    ELSE dec
         \o (IF log.product # NONE /\ log.section = ASSEMBLY /\ ~log.is_external
             THEN <<"bom">> ELSE <<>>)
         \o <<"inc", "save">>

\* The database as request c reads it: committed rows and its own writes.
View(c) == apply_writes(db, reqs[c].pend, 1)

IsStockWrite(w) == w.t \in {"stock", "part", "material"}

\* Request c issues the writes ws and moves to pc with the fields in upd.
Emit(c, ws, next) ==
    /\ CanWrite(c, ws)
    /\ LET wrote == reqs[c].wrote \/ \E i \in 1..Len(ws) : IsStockWrite(ws[i]) IN
       IF reqs[c].path = "worker"
       THEN /\ db' = db
            /\ locks' = locks \cup LocksOf(c, ws)
            /\ reqs' = [reqs EXCEPT ![c] = [next EXCEPT !.pend = reqs[c].pend \o ws,
                                                        !.wrote = wrote]]
       ELSE /\ db' = apply_writes(db, ws, 1)
            /\ locks' = locks
            /\ reqs' = [reqs EXCEPT ![c] = [next EXCEPT !.wrote = wrote]]

\* The log creation of request c raised: the worker's atomic block is rolled
\* back and the code after its try/except runs; the manager view returns.
Fail(c, ws, outcome) ==
    LET r == reqs[c]
        done == [r EXCEPT !.pc = "done", !.outcome = outcome, !.pend = <<>>, !.plan = <<>>]
    IN
    IF r.path = "worker" THEN
        /\ r.kind = "product" /\ r.is_scrap => Free(c, <<"job", r.jn>>)
        /\ db' = IF r.kind = "product"
                 THEN worker_after_failure(db, r.jn, r.is_scrap) ELSE db
        /\ locks' = {l \in locks : l.c # c}
        /\ reqs' = [reqs EXCEPT ![c] = [done EXCEPT !.wrote = FALSE]]
    ELSE
        /\ CanWrite(c, ws)
        /\ db' = apply_writes(db, ws, 1)
        /\ locks' = locks
        /\ reqs' = [reqs EXCEPT ![c] = [done EXCEPT !.wrote =
                        r.wrote \/ \E i \in 1..Len(ws) : IsStockWrite(ws[i])]]

\* Opening databases of the concurrent runs: fresh stock for one assembly's
\* worth of material and two of parts, and a line where J1 stands in assembly
\* with one unit in the bucket and J2 was scrapped there.
ConcDbs ==
    {SeedDb([pa |-> 4, pb |-> 2, mb |-> 3]),
     work_entry(
         work_entry(SeedDb([pa |-> 4, pb |-> 2, mb |-> 6]),
                    "manager", "J1", "chair", ASSEMBLY, FALSE, FALSE).d,
         "manager", "J2", "chair", ASSEMBLY, TRUE, FALSE).d}

ConcSections == {"assembly", "painting"}

InitConc ==
    /\ \E d \in ConcDbs : db = d /\ hist = InitHist(d)
    /\ last = NoLast
    /\ reqs = IdleReqs
    /\ locks = {}

\* POST of a product section up to the is_default save: get_or_create, the
\* checks, the update that clears is_default on the other jobs.  is_external
\* is not posted.  job_obj stays in memory as it was read.
CStartProduct(c, path, jn, section, is_scrap) ==
    /\ reqs[c].pc = "idle"
    /\ LET d1 == get_or_create_job(db, jn, "chair")
           v == validate(d1, path, jn, "chair", section, FALSE)
           d2 == clear_default(d1, jn)
           job_obj == [d1.job[jn] EXCEPT !.is_default = TRUE]
           log == Log(jn, section, NONE, "chair", 0, 0, is_scrap, FALSE)
           r0 == Req("default", "product", path, jn, section, is_scrap, NONE, 0, 0)
       IN IF v # "pass"
          THEN /\ db' = d1
               /\ reqs' = [reqs EXCEPT ![c] = [r0 EXCEPT !.pc = "done", !.outcome = v]]
          ELSE /\ \A k \in JobNumbers : Free(c, <<"job", k>>)
               /\ db' = d2
               /\ reqs' = [reqs EXCEPT ![c] = [r0 EXCEPT !.job = job_obj, !.log = log,
                                                       !.plan = plan(log, job_obj)]]
    /\ UNCHANGED <<locks, last, hist>>

\* job_obj.save(update_fields=['is_default']), in autocommit on both paths.
CDefault(c) ==
    /\ reqs[c].pc = "default"
    /\ Free(c, <<"job", reqs[c].jn>>)
    /\ db' = own_default(db, reqs[c].jn)
    /\ reqs' = [reqs EXCEPT ![c].pc = "insert"]
    /\ UNCHANGED <<locks, last, hist>>

\* POST of a part section up to the log creation: the form loads the Part.
CStartPart(c, path, part, section, produced, scrap) ==
    /\ reqs[c].pc = "idle"
    /\ produced + scrap > 0
    /\ reqs' = [reqs EXCEPT ![c] =
                  [Req("pwrite", "part", path, NONE, section, FALSE, part, produced, scrap)
                     EXCEPT !.prow = db.part[part],
                            !.log = Log(NONE, section, part, NONE, produced, scrap,
                                        FALSE, FALSE)]]
    /\ UNCHANGED <<db, locks, last, hist>>

\* INSERT of the log row; an uncommitted row with the same (job, section)
\* makes the insert wait.
CInsert(c) ==
    /\ reqs[c].pc = "insert"
    /\ Free(c, <<"log", reqs[c].jn, reqs[c].section>>)
    /\ IF unique_violation(db, reqs[c].log)
       THEN Fail(c, <<>>, "integrity_error")
       ELSE Emit(c, <<Write("log", NONE, NONE, reqs[c].log)>>,
                 [reqs[c] EXCEPT !.pc = "step"])
    /\ UNCHANGED <<last, hist>>

\* ProductStock.objects.get_or_create(product=...): the row is read.
CRead(c) ==
    /\ reqs[c].pc = "step" /\ reqs[c].plan # <<>>
    /\ Head(reqs[c].plan) \in {"dec", "inc"}
    /\ reqs' = [reqs EXCEPT ![c].row = View(c).stock["chair"], ![c].pc = "write"]
    /\ UNCHANGED <<db, locks, last, hist>>

\* The check and stock.save(update_fields=[fname]) on the row read before.
CWrite(c) ==
    /\ reqs[c].pc = "write"
    /\ LET r == reqs[c]
           dstale == [View(c) EXCEPT !.stock["chair"] = r.row]
           res == IF Head(r.plan) = "inc" THEN increment_current(dstale, r.log)
                  ELSE IF r.job.job_label = "deposit"
                       THEN dec_prev_product_bucket(dstale, r.log, r.job)
                       ELSE decrement_previous(dstale, r.log, r.job)
           ws == StockWrites(dstale, res.d)
       IN IF res.ok
          THEN Emit(c, ws, [r EXCEPT !.pc = "step", !.plan = Tail(r.plan)])
          ELSE Fail(c, ws, "inventory_error")
    /\ UNCHANGED <<last, hist>>

\* The consumption block: select_for_update on the Part and Material rows,
\* checks and debits, inside transaction.atomic().
CBom(c) ==
    /\ reqs[c].pc = "step" /\ reqs[c].plan # <<>> /\ Head(reqs[c].plan) = "bom"
    /\ \A p \in Parts : Free(c, <<"part", p>>)
    /\ \A m \in Materials : Free(c, <<"material", m>>)
    /\ LET r == reqs[c]
           res == consume_inputs(View(c), r.log.product)
           ws == PartWrites(View(c), res.d, "stock_cnc_tools")
                 \o MaterialWrites(View(c), res.d)
       IN IF res.ok
          THEN Emit(c, ws, [r EXCEPT !.plan = Tail(r.plan)])
          ELSE Fail(c, ws, "inventory_error")
    /\ UNCHANGED <<last, hist>>

\* job.save(update_fields=[...]) at the end of apply_inventory.
CSave(c) ==
    /\ reqs[c].pc = "step" /\ reqs[c].plan # <<>> /\ Head(reqs[c].plan) = "save"
    /\ Emit(c, <<Write("job", reqs[c].jn, NONE, job_after(reqs[c].log, reqs[c].job))>>,
            [reqs[c] EXCEPT !.pc = "commit", !.plan = <<>>])
    /\ UNCHANGED <<last, hist>>

\* The log of a part section: the row is saved, then the stale Part instance
\* is checked, changed and saved.
CPart(c) ==
    /\ reqs[c].pc = "pwrite"
    /\ LET r == reqs[c]
           dstale == [View(c) EXCEPT !.part[r.part] = r.prow]
           res == apply_part_log(dstale, r.log)
           row == res.d.part[r.part]
           logw == <<Write("log", NONE, NONE, r.log)>>
           cut == <<Write("part", r.part, "stock_cut", row.stock_cut)>>
           cnc == <<Write("part", r.part, "stock_cnc_tools", row.stock_cnc_tools)>>
       IN IF res.ok
          THEN Emit(c, logw \o cut \o (IF r.section = CNC_TOOLS THEN cnc ELSE <<>>),
                    [r EXCEPT !.pc = "commit"])
          ELSE Fail(c, logw, "inventory_error")
    /\ UNCHANGED <<last, hist>>

\* End of the log creation: the worker's transaction commits; a product
\* submission marked is_scrap then saves the scrapped job.
CCommit(c) ==
    /\ reqs[c].pc = "commit"
    /\ LET r == reqs[c]
           d1 == apply_writes(db, r.pend, 1)
       IN /\ r.kind = "product" /\ r.is_scrap => Free(c, <<"job", r.jn>>)
          /\ db' = IF r.kind = "product" /\ r.is_scrap THEN mark_scrapped(d1, r.jn) ELSE d1
          /\ locks' = {l \in locks : l.c # c}
          /\ reqs' = [reqs EXCEPT ![c] = [r EXCEPT !.pc = "done", !.outcome = "ok",
                                                   !.pend = <<>>]]
    /\ UNCHANGED <<last, hist>>

NextConc ==
    \E c \in Clients :
        \/ \E path \in {"worker", "manager"}, jn \in JobNumbers, section \in ConcSections,
              is_scrap \in BOOLEAN : CStartProduct(c, path, jn, section, is_scrap)
        \/ \E path \in {"worker", "manager"}, part \in WorkedParts,
              section \in {CUTTING, CNC_TOOLS}, produced \in 0..MaxQty, scrap \in 0..MaxQty :
              CStartPart(c, path, part, section, produced, scrap)
        \/ CDefault(c)
        \/ CInsert(c)
        \/ CRead(c)
        \/ CWrite(c)
        \/ CBom(c)
        \/ CSave(c)
        \/ CPart(c)
        \/ CCommit(c)

SpecConc == InitConc /\ [][NextConc]_vars

\* What request r does to database d when it runs alone.
RunReq(d, r) ==
    IF r.kind = "product"
    THEN work_entry(d, r.path, r.jn, "chair", r.section, r.is_scrap, FALSE).d
    ELSE work_entry_part(d, r.path, r.part, r.section, r.produced, r.scrap).d

\* The stock after the two requests ran one after the other, a first.
Serial(a, b) == StockStore(RunReq(RunReq(hist.db0, reqs[a]), reqs[b]))

\* ------------------------------------------------------------------ job edit
\* _build_progress_state: the canonical-ordered flow and the count of its
\* leading sections that have a log of the job.
RECURSIVE progress_cursor(_, _, _, _)
progress_cursor(d, jn, flow, i) ==
    IF i > Len(flow) THEN 0
    ELSE IF has_log(d, jn, flow[i]) THEN 1 + progress_cursor(d, jn, flow, i + 1)
    ELSE 0

build_progress_state(d, jn, raw_sections) ==
    LET flow == allowed_norm(raw_sections) IN
    [flow |-> flow, cursor |-> progress_cursor(d, jn, flow, 1), flow_length |-> Len(flow)]

Min(a, b) == IF a < b THEN a ELSE b
Max(a, b) == IF a > b THEN a ELSE b

\* A loop that removes every log of the job from the newest down to the oldest
\* one of the slice.
RECURSIVE rewind_loop_suffix(_, _, _, _, _)
rewind_loop_suffix(d, positions, k, slice_set, removed) ==
    IF k = 0 \/ slice_set = {} THEN [d |-> d, removed |-> removed]
    ELSE LET log == d.logs[positions[k]] IN
         rewind_loop_suffix(
             rollback_inventory(d, log, prev_section_of(d, positions, k)),
             positions, k - 1, slice_set \ {log.section},
             removed \cup {positions[k]})

\* The loop of rewind_job_progress over the reversed history: a log whose
\* section is still in slice_set is rolled back and marked for deletion.
RECURSIVE rewind_loop(_, _, _, _, _)
rewind_loop(d, positions, k, slice_set, removed) ==
    IF k = 0 \/ slice_set = {} THEN [d |-> d, removed |-> removed]
    ELSE LET log == d.logs[positions[k]] IN
         IF log.section \in slice_set
         THEN rewind_loop(
                  rollback_inventory(d, log, prev_section_of(d, positions, k)),
                  positions, k - 1, slice_set \ {log.section},
                  removed \cup {positions[k]})
         ELSE rewind_loop(d, positions, k - 1, slice_set, removed)

\* rewind_job_progress(job, ordered_flow, target_cursor, current_cursor):
\* the database after it, the count of removed logs and the new current section.
rewind_job_progress(d, jn, ordered_flow, target_cursor, current_cursor) ==
    IF ordered_flow = <<>>
    THEN [d |-> d, removed |-> 0, new_current |-> d.job[jn].current_section]
    ELSE
        LET target == Max(0, Min(target_cursor, Len(ordered_flow)))
            current == Max(target, Min(current_cursor, Len(ordered_flow)))
            slice_set == {ordered_flow[i] : i \in (target + 1)..current}
            new_current == IF target > 0 THEN ordered_flow[target] ELSE NONE
            positions == job_log_positions(d, jn)
            r == rewind_loop(d, positions, Len(positions), slice_set, {})
            kept == SelectSeq([i \in 1..Len(d.logs) |-> i], LAMBDA i : i \notin r.removed)
        IN IF slice_set = {}
           THEN [d |-> d, removed |-> 0, new_current |-> new_current]
           ELSE [d |-> [r.d EXCEPT !.logs = [i \in 1..Len(kept) |-> d.logs[kept[i]]]],
                 removed |-> Cardinality(r.removed),
                 new_current |-> new_current]

\* A job edit that reopens the status but leaves finished_at as the label
\* dictates.
job_edit_keeps_finished(d, jn, product, job_label, allowed, progress_cursor_raw) ==
    LET job == d.job[jn]
        progress == build_progress_state(d, jn, job.allowed_sections)
        current_flow == progress.flow
        requested == Max(0, Min(progress_cursor_raw, progress.cursor))
        st == IF job_label \in {"deposit", "in_progress", "repaired"} THEN "in_progress"
              ELSE IF job_label = "warranty" THEN "warranty"
              ELSE job_label
        rewinds == current_flow # <<>> /\ requested < progress.cursor
        rw == IF rewinds
              THEN rewind_job_progress(d, jn, current_flow, requested, progress.cursor)
              ELSE [d |-> d, removed |-> 0, new_current |-> job.current_section]
        cursor == IF rewinds THEN requested ELSE progress.cursor
        desired_current == IF current_flow # <<>> THEN rw.new_current ELSE job.current_section
        reopen == current_flow # <<>> /\ cursor < progress.flow_length
        st2 == IF reopen /\ st \in {"scrapped", "completed"} THEN "in_progress" ELSE st
    IN [rw.d EXCEPT !.job[jn].product = product,
                    !.job[jn].job_label = job_label,
                    !.job[jn].status = st2,
                    !.job[jn].allowed_sections = allowed,
                    !.job[jn].current_section = desired_current,
                    !.job[jn].finished_at = st \in {"scrapped", "completed"}]

\* job_edit_view, POST with a valid form.
job_edit(d, jn, product, job_label, allowed, progress_cursor_raw) ==
    LET job == d.job[jn]
        progress == build_progress_state(d, jn, job.allowed_sections)
        current_flow == progress.flow
        requested == Max(0, Min(progress_cursor_raw, progress.cursor))
        st == IF job_label \in {"deposit", "in_progress", "repaired"} THEN "in_progress"
              ELSE IF job_label = "warranty" THEN "warranty"
              ELSE job_label
        rewinds == current_flow # <<>> /\ requested < progress.cursor
        rw == IF rewinds
              THEN rewind_job_progress(d, jn, current_flow, requested, progress.cursor)
              ELSE [d |-> d, removed |-> 0, new_current |-> job.current_section]
        cursor == IF rewinds THEN requested ELSE progress.cursor
        desired_current == IF current_flow # <<>> THEN rw.new_current ELSE job.current_section
        reopen == current_flow # <<>> /\ cursor < progress.flow_length
        st2 == IF reopen /\ st \in {"scrapped", "completed"} THEN "in_progress" ELSE st
        fin == IF reopen THEN FALSE ELSE st \in {"scrapped", "completed"}
    IN [rw.d EXCEPT !.job[jn].product = product,
                    !.job[jn].job_label = job_label,
                    !.job[jn].status = st2,
                    !.job[jn].allowed_sections = allowed,
                    !.job[jn].current_section = desired_current,
                    !.job[jn].finished_at = fin]

\* maintenance_action(action = purge_logs)
purge_logs(d) == [d EXCEPT !.logs = <<>>]

\* maintenance_action(action = purge_logs_and_zero)
purge_logs_and_zero(d) ==
    [rebuild_zero(d) EXCEPT !.logs = <<>>,
                            !.material = [m \in Materials |-> 0]]

\* The stock store before the job's accepted movement into the section, and
\* the current_section the movement found on the job; a rejected submission
\* that left its row is noted.
hist_before(h, d, d2, jn, section, outcome) ==
    IF outcome = "ok"
    THEN [h EXCEPT !.before[jn][section] = StockStore(d),
                   !.read[jn][section] = IF d.job[jn].exists
                                         THEN d.job[jn].current_section ELSE NONE]
    ELSE [h EXCEPT !.stray = @ \/ Len(d2.logs) > Len(d.logs)]

\* (job_label, progress_cursor) pairs posted to the job edit form; the posted
\* allowed_sections are the stored ones.
EditChoices == {<<lb, cur>> : lb \in {"in_progress", "deposit", "scrapped"}, cur \in 0..1}

AdminSections == {"assembly", "painting"}

\* Work entry for a product section, external flag not posted.
AdminWorkEntry(path, jn, section, is_scrap) ==
    /\ hist.nsteps < MaxSteps
    /\ LET r == work_entry(db, path, jn, "chair", section, is_scrap, FALSE) IN
       /\ db' = r.d
       /\ last' = Last("work_entry", jn, section, r.outcome)
       /\ hist' = hist_before(hist_movement(hist, db, r.d, jn, r.outcome),
                              db, r.d, jn, section, r.outcome)
    /\ UNCHANGED <<reqs, locks>>

JobEdit(jn, label, cursor) ==
    /\ hist.nsteps < MaxSteps
    /\ db.job[jn].exists
    /\ db.job[jn].allowed_sections # <<>>
    /\ LET d2 == job_edit(db, jn, "chair", label, db.job[jn].allowed_sections, cursor) IN
       /\ db' = d2
       /\ last' = Last("job_edit", jn, NONE, "ok")
       /\ hist' = [hist_other(hist, db, d2) EXCEPT
                      !.clean[jn] = hist.clean[jn] /\ d2.logs = db.logs
                                    /\ StockStore(d2) = StockStore(db)]
    /\ UNCHANGED <<reqs, locks>>

PurgeLogs ==
    /\ hist.nsteps < MaxSteps
    /\ db.logs # <<>>
    /\ db' = purge_logs(db)
    /\ last' = Last("purge_logs", NONE, NONE, "ok")
    /\ hist' = [hist_other(hist, db, db') EXCEPT
                   !.clean = [k \in JobNumbers |-> FALSE], !.pure = FALSE]
    /\ UNCHANGED <<reqs, locks>>

PurgeLogsAndZero ==
    /\ hist.nsteps < MaxSteps
    /\ db.logs # <<>>
    /\ db' = purge_logs_and_zero(db)
    /\ last' = Last("purge_logs_and_zero", NONE, NONE, "ok")
    /\ hist' = [hist_other(hist, db, db') EXCEPT
                   !.clean = [k \in JobNumbers |-> FALSE], !.pure = FALSE]
    /\ UNCHANGED <<reqs, locks>>

NextAdmin ==
    \/ \E c \in AddChoices : JobAdd(c[1], c[2], c[3])
    \/ \E path \in {"worker", "manager"}, jn \in WorkedJobs, section \in AdminSections,
          is_scrap \in BOOLEAN : AdminWorkEntry(path, jn, section, is_scrap)
    \/ \E jn \in WorkedJobs, c \in EditChoices : JobEdit(jn, c[1], c[2])
    \/ \E jn \in JobNumbers : DeleteJob(jn)
    \/ PurgeLogs
    \/ PurgeLogsAndZero

SpecAdmin == Init /\ [][NextAdmin]_vars

\* ------------------------------------------------------------------ rewind call
\* rewind_job_progress called directly on a job whose logs stand in any
\* chronological order (one per section), between a part log and a log of
\* another job.
RewindSections == {"assembly", "painting", "packaging"}

RewindHistories ==
    {s \in UNION {[1..n -> RewindSections] : n \in 0..3} :
        \A i, k \in 1..Len(s) : i # k => s[i] # s[k]}

RewindFlows ==
    {<<>>, <<"assembly">>, <<"painting">>, <<"assembly", "painting">>,
     <<"assembly", "packaging">>, <<"assembly", "painting", "packaging">>}

RewindDbs ==
    {[part |-> [p \in Parts |-> [stock_cut |-> 0, stock_cnc_tools |-> 2]],
      material |-> [m \in Materials |-> 3],
      stock |-> [pr \in Products |-> [sec \in ProductSections |-> 1]],
      job |-> [jn \in JobNumbers |->
                 IF jn = LawJob
                 THEN [NoJob EXCEPT !.exists = TRUE, !.product = "chair",
                                    !.job_label = lb,
                                    !.current_section =
                                        IF s = <<>> THEN NONE ELSE s[Len(s)]]
                 ELSE [NoJob EXCEPT !.exists = TRUE, !.product = "chair",
                                    !.current_section = ASSEMBLY]],
      logs |-> <<Log(NONE, CUTTING, "PA", NONE, 1, 0, FALSE, FALSE)>>
               \o [i \in 1..Len(s) |-> Log(LawJob, s[i], NONE, "chair", 0, 0, FALSE, FALSE)]
               \o <<Log("J2", ASSEMBLY, NONE, "chair", 0, 0, FALSE, TRUE)>>] :
        s \in RewindHistories, lb \in {"in_progress", "deposit"}}

InitRewind ==
    /\ \E d \in RewindDbs : db = d /\ hist = InitHist(d)
    /\ last = NoLast
    /\ reqs = IdleReqs
    /\ locks = {}

Rewind(ordered_flow, target_cursor, current_cursor) ==
    /\ last.op = "init"
    /\ LET r == rewind_job_progress(db, LawJob, ordered_flow, target_cursor, current_cursor) IN
       /\ db' = r.d
       /\ last' = Last("rewind", LawJob, NONE, "ok")
       /\ hist' = [hist EXCEPT
                      !.call = [flow |-> ordered_flow, target |-> target_cursor,
                                current |-> current_cursor],
                      !.ret = [removed |-> r.removed, new_current |-> r.new_current]]
    /\ UNCHANGED <<reqs, locks>>

NextRewind ==
    \E flow \in RewindFlows, target \in (-1)..MaxCursor, current \in (-1)..MaxCursor :
        Rewind(flow, target, current)

SpecRewind == InitRewind /\ [][NextRewind]_vars

\* ------------------------------------------------------------------ flow order
\* A job created through the form with its allowed sections ticked in any
\* order, then worked and edited.
FlowLists ==
    {s \in UNION {[1..n -> SubmitSections] : n \in 1..3} :
        \A i, k \in 1..Len(s) : i # k => s[i] # s[k]}

InitFlow ==
    /\ \E seed \in Seeds, allowed \in FlowLists, label \in {"in_progress", "warranty"} :
          LET d == job_add(SeedDb(seed), LawJob, "chair", label, allowed).d IN
          db = d /\ hist = InitHist(d)
    /\ last = NoLast
    /\ reqs = IdleReqs
    /\ locks = {}

NextFlow ==
    \/ \E path \in {"worker", "manager"}, section \in SubmitSections :
          AdminWorkEntry(path, LawJob, section, FALSE)
    \/ \E cursor \in 0..1 : JobEdit(LawJob, "in_progress", cursor)

SpecFlow == InitFlow /\ [][NextFlow]_vars

\* ------------------------------------------------------------------ labels
\* One job created through the form with any label, then worked and edited.
LabelChoices ==
    {<<lb, al>> : lb \in {"in_progress", "warranty", "repaired", "deposit",
                          "scrapped", "completed"},
                  al \in {<<"painting">>, <<"painting", "assembly">>}}

NextLabels ==
    \/ \E c \in LabelChoices : JobAdd(LawJob, c[1], c[2])
    \/ \E path \in {"worker", "manager"}, section \in AdminSections, is_scrap \in BOOLEAN :
          AdminWorkEntry(path, LawJob, section, is_scrap)
    \/ \E c \in EditChoices : JobEdit(LawJob, c[1], c[2])

SpecLabels == Init /\ [][NextLabels]_vars

\* ------------------------------------------------------------------ reports
\* _compute_job_consumption: the job's non-external assembly logs counted as
\* units, times the BOM quantities (materials in half units).
compute_job_consumption(d, jn) ==
    LET job == d.job[jn]
        units == Cardinality({i \in 1..Len(d.logs) :
                                 /\ d.logs[i].job = jn
                                 /\ d.logs[i].section = ASSEMBLY
                                 /\ ~d.logs[i].is_external})
        comps == get_components_for_product(job.product)
        mats == get_materials_for_product(job.product)
        comp_qty(p) == IF \E i \in 1..Len(comps) : comps[i].part = p
                       THEN comps[CHOOSE i \in 1..Len(comps) : comps[i].part = p].qty
                       ELSE 0
        mat_qty(m) == IF \E i \in 1..Len(mats) : mats[i].material = m
                      THEN mats[CHOOSE i \in 1..Len(mats) : mats[i].material = m].qty
                      ELSE 0
    IN IF ~job.exists \/ job.product = NONE
       THEN [parts |-> [p \in Parts |-> 0], materials |-> [m \in Materials |-> 0],
             units |-> 0]
       ELSE [parts |-> [p \in Parts |-> comp_qty(p) * units],
             materials |-> [m \in Materials |-> mat_qty(m) * units],
             units |-> units]

\* ------------------------------------------------------------------ properties
JobLogs(d, jn) == {i \in 1..Len(d.logs) : d.logs[i].job = jn}

\* The step just taken was a product-section submission with this outcome.
Submitted(outcome) == last'.op = "work_entry" /\ last'.outcome = outcome

\* The log row an accepted submission appended.
NewLog == db'.logs[Len(db'.logs)]

\* C1: after delete_job_completely(job), when only that job's accepted
\* movements touched the stock since its first movement, every stock counter
\* has the value it had before the job's first movement, no log of the job is
\* left and the job row is gone.
C1_DeleteRestoresStock ==
    (last.op = "delete_job" /\ hist.has_base[last.job] /\ hist.clean[last.job]) =>
        /\ StockStore(db) = hist.base[last.job]
        /\ JobLogs(db, last.job) = {}
        /\ ~db.job[last.job].exists

\* No counter that was >= 0 in d is < 0 in d2.
KeepsNonNegative(d, d2) ==
    /\ \A p \in Parts :
        /\ d.part[p].stock_cut >= 0 => d2.part[p].stock_cut >= 0
        /\ d.part[p].stock_cnc_tools >= 0 => d2.part[p].stock_cnc_tools >= 0
    /\ \A m \in Materials : d.material[m] >= 0 => d2.material[m] >= 0
    /\ \A pr \in Products, sec \in ProductSections :
        d.stock[pr][sec] >= 0 => d2.stock[pr][sec] >= 0

\* C3: a work-entry submission (product or part section, accepted or rejected,
\* hence every state apply_inventory leaves behind) never takes a Part stock, a
\* Material quantity or a ProductStock bucket from >= 0 to below 0.
C3_NonNegativeUnderApply ==
    [][last'.op \in {"work_entry", "work_entry_part"} => KeepsNonNegative(db, db')]_vars

\* C3 witness: an accepted movement from assembly on to painting has debited
\* the assembly bucket down to 0, after the assembly entry consumed the last PB.
C3_Witness ==
    /\ last.op = "work_entry" /\ last.outcome = "ok" /\ last.section = "painting"
    /\ has_log(db, last.job, ASSEMBLY)
    /\ db.stock["chair"]["assembly"] = 0
    /\ db.stock["chair"]["painting"] = 1
    /\ db.part["PB"].stock_cnc_tools = 0

\* C4: rebuild_stocks on a stock state produced by applied logs alone
\* completes and leaves every Part, Material and ProductStock counter as it was.
C4_RebuildReproducesStock ==
    [][(last'.op = "rebuild_stocks" /\ hist.pure) =>
          (last'.outcome = "ok" /\ StockStore(db') = StockStore(db))]_vars

\* C6: a submission rejected by an inventory error leaves no log row for its
\* (job, section) and leaves the job's status, job_label, current_section and
\* finished_at as they were.
C6_RejectionAllOrNothing ==
    [][Submitted("inventory_error") =>
          /\ ~has_log(db', last'.job, last'.section)
          /\ db'.job[last'.job].status = db.job[last'.job].status
          /\ db'.job[last'.job].job_label = db.job[last'.job].job_label
          /\ db'.job[last'.job].current_section = db.job[last'.job].current_section
          /\ db'.job[last'.job].finished_at = db.job[last'.job].finished_at]_vars

\* C8: a product movement for a job with non-empty allowed_sections is accepted
\* only if its section is allowed and the section before it in the
\* canonical-ordered allowed list already has a log of the job.
C8_SectionGating ==
    [][(Submitted("ok") /\ db.job[last'.job].allowed_sections # <<>>) =>
          LET allowed == db.job[last'.job].allowed_sections
              prev == gating_prev(allowed, last'.section)
          IN /\ last'.section \in Range(allowed)
             /\ prev # NONE => has_log(db, last'.job, prev)]_vars

\* The section is the last of the canonical-ordered allowed list, or packaging.
ClosingSection(allowed, section) ==
    \/ section = PACKAGING
    \/ \E i \in 1..Len(ORDER) :
          /\ ORDER[i] = section
          /\ section \in Range(allowed)
          /\ \A k \in (i + 1)..Len(ORDER) : ORDER[k] \notin Range(allowed)

\* C9: an accepted non-scrap product movement stamps finished_at and sets the
\* status to completed or repaired exactly when its section is the last of the
\* job's canonical-ordered allowed_sections or is packaging; otherwise it
\* leaves status and finished_at as they were and sets current_section to its
\* section.
C9_CompletionRule ==
    [][(Submitted("ok") /\ ~NewLog.is_scrap) =>
          LET before == db.job[last'.job]
              after == db'.job[last'.job]
          IN IF ClosingSection(before.allowed_sections, last'.section)
             THEN /\ after.finished_at
                  /\ after.status = IF before.status = "warranty"
                                    THEN "repaired" ELSE "completed"
                  /\ after.current_section = last'.section
             ELSE /\ after.finished_at = before.finished_at
                  /\ after.status = before.status
                  /\ after.current_section = last'.section]_vars

\* C9 witness: a warranty job allowed <<painting, assembly>> was closed as
\* repaired by its painting entry, after its assembly entry had left it open.
C9_Witness ==
    /\ last.op = "work_entry" /\ last.outcome = "ok" /\ last.section = "painting"
    /\ db.job[last.job].allowed_sections = <<"painting", "assembly">>
    /\ has_log(db, last.job, ASSEMBLY)
    /\ db.job[last.job].status = "repaired"
    /\ db.job[last.job].finished_at
    /\ db.job[last.job].current_section = "painting"

\* C2: rolling back a single log that was applied successfully, with the job's
\* current_section before the apply as prev_section, leaves every stock counter
\* as it was before the apply.
C2_ApplyRollbackInverse ==
    last.op = "law_rollback" => StockStore(db) = StockStore(hist.db0)

LogsAt(d, jn, section) ==
    {i \in 1..Len(d.logs) : d.logs[i].job = jn /\ d.logs[i].section = section}

\* Request c was turned away in this step as a second log of its (job, section).
RejectedAsDuplicate(c) ==
    /\ reqs[c].pc # "done"
    /\ reqs'[c].pc = "done"
    /\ reqs'[c].outcome \in {"duplicate", "integrity_error"}

\* C5: also with two submissions running at once, the table never holds two
\* logs of one (job, section), and the submission rejected as the second one
\* has changed no stock counter.
C5_OneLogPerJobSection ==
    [][/\ \A jn \in JobNumbers, section \in ProductSections :
             Cardinality(LogsAt(db', jn, section)) <= 1
       /\ \A c \in Clients : RejectedAsDuplicate(c) =>
             /\ StockStore(db') = StockStore(db)
             /\ ~reqs'[c].wrote]_vars

\* C5 witness: both requests posted J1 into painting at once and passed the
\* checks; one was accepted, the other failed on the unique constraint, and
\* one log and one credited unit exist.
C5_Witness ==
    /\ \A c \in Clients : reqs[c].pc = "done" /\ reqs[c].jn = "J1"
                          /\ reqs[c].section = "painting"
    /\ \E c \in Clients : reqs[c].outcome = "ok"
    /\ \E c \in Clients : reqs[c].outcome = "integrity_error"
    /\ Cardinality(LogsAt(db, "J1", "painting")) = 1
    /\ db.stock["chair"]["painting"] = 1

\* The consumption block of request c raised in this step.
BomRejected(c) ==
    /\ reqs[c].pc = "step" /\ reqs[c].plan # <<>> /\ Head(reqs[c].plan) = "bom"
    /\ reqs'[c].outcome = "inventory_error"

\* C7: when the consumption block of an entry into assembly fails on a part or
\* a material, every Part.stock_cnc_tools and every Material.quantity is as
\* before, the request keeps no uncommitted debit, and stock_assembly is not
\* credited.
C7_BomShortfallChangesNothing ==
    [][\A c \in Clients : BomRejected(c) =>
          /\ db'.part = db.part
          /\ db'.material = db.material
          /\ db'.stock = db.stock
          /\ reqs'[c].pend = <<>>]_vars

\* C7 witness: two assembly entries passed the stock checks together; the
\* second found both parts in stock and the material gone, and the parts are
\* still there.
C7_Witness ==
    \E c \in Clients, o \in Clients :
        /\ reqs[c].pc = "done" /\ reqs[c].outcome = "inventory_error"
        /\ reqs[c].section = ASSEMBLY
        /\ reqs[o].pc = "done" /\ reqs[o].outcome = "ok" /\ reqs[o].section = ASSEMBLY
        /\ db.part["PA"].stock_cnc_tools = 2
        /\ db.part["PB"].stock_cnc_tools = 1
        /\ db.material["MB"] = 0

\* C10: when two requests that ran at once were both accepted, the stock is
\* what running them one after the other, in one order or the other, leaves.
C10_Serializable ==
    (\A c \in Clients : reqs[c].pc = "done" /\ reqs[c].outcome = "ok") =>
        StockStore(db) \in {Serial("c1", "c2"), Serial("c2", "c1")}

\* C11: in every reachable state every ProductStock counter, Part.stock_cut,
\* Part.stock_cnc_tools and Material.quantity is >= 0.
C11_StockNeverNegative ==
    /\ \A p \in Parts : db.part[p].stock_cut >= 0 /\ db.part[p].stock_cnc_tools >= 0
    /\ \A m \in Materials : db.material[m] >= 0
    /\ \A pr \in Products, sec \in ProductSections : db.stock[pr][sec] >= 0

\* The positions of the job's logs that the step removed.
RemovedLogs(jn) ==
    {i \in JobLogs(db, jn) : ~has_log(db', jn, db.logs[i].section)}

Earliest(positions) == CHOOSE i \in positions : \A k \in positions : i <= k

\* The removed logs are the job's newest ones.
RemovedSuffix(jn) ==
    \A i \in JobLogs(db, jn) : i > Earliest(RemovedLogs(jn)) => i \in RemovedLogs(jn)

\* C12: after a job edit rewound the job by removing its newest logs, when
\* only that job's accepted movements touched the stock since its first
\* movement, every stock counter has the value it had just before the earliest
\* removed log was applied.
C12_RewindRestoresStock ==
    [][(/\ last'.op = "job_edit"
        /\ RemovedLogs(last'.job) # {}
        /\ RemovedSuffix(last'.job)
        /\ hist.has_base[last'.job] /\ hist.clean[last'.job]) =>
          StockStore(db') =
              hist.before[last'.job][db.logs[Earliest(RemovedLogs(last'.job))].section]]_vars

\* C13: creating a job through the job creation form creates no log and leaves
\* every Part, Material and ProductStock counter unchanged.
C13_JobCreationMovesNoStock ==
    [][(last'.op = "job_add" /\ last'.outcome = "ok") =>
          /\ db'.logs = db.logs
          /\ StockStore(db') = StockStore(db)]_vars

RECURSIVE IsSubSeq(_, _)
IsSubSeq(s, t) ==
    IF s = <<>> THEN TRUE
    ELSE IF t = <<>> THEN FALSE
    ELSE IF Head(s) = Head(t) THEN IsSubSeq(Tail(s), Tail(t))
    ELSE IsSubSeq(s, Tail(t))

\* C14: no step changes a log row; a step that removes log rows is a job
\* deletion or a job edit with rewind (which roll each removed log back), and a
\* step that removes none only appends.
C14_LogsDeletedOnlyWithRollback ==
    [][/\ IsSubSeq(db'.logs, db.logs) \/ IsSubSeq(db.logs, db'.logs)
       /\ Len(db'.logs) < Len(db.logs) => last'.op \in {"delete_job", "job_edit"}
       /\ Len(db'.logs) >= Len(db.logs) => SubSeq(db'.logs, 1, Len(db.logs)) = db.logs]_vars

\* C15: also with two requests running at once, at most one ProductionJob has
\* is_default = true.
C15_SingleDefaultJob ==
    Cardinality({jn \in JobNumbers : db.job[jn].exists /\ db.job[jn].is_default}) <= 1

\* The step just taken applied a single log (accepted or rejected).
Applied == last'.op = "law_apply"

\* C16: a part-only cnc_tools log succeeds exactly when produced_qty +
\* scrap_qty <= Part.stock_cut; on success stock_cut falls by produced_qty +
\* scrap_qty and stock_cnc_tools rises by produced_qty; on rejection both are
\* unchanged.
C16_CncToolsPartLog ==
    [][(Applied /\ NewLog.part # NONE /\ NewLog.product = NONE
        /\ NewLog.section = CNC_TOOLS) =>
          LET row == db.part[NewLog.part]
              row2 == db'.part[NewLog.part]
              q == NewLog.produced_qty + NewLog.scrap_qty
          IN /\ last'.outcome = "ok" <=> q <= row.stock_cut
             /\ last'.outcome = "ok" =>
                   /\ row2.stock_cut = row.stock_cut - q
                   /\ row2.stock_cnc_tools = row.stock_cnc_tools + NewLog.produced_qty
             /\ last'.outcome # "ok" => row2 = row]_vars

\* C16 witness: a cnc_tools log with produced_qty 1 took the one cut PA.
C16_Witness ==
    /\ last.op = "law_apply" /\ last.outcome = "ok" /\ last.section = CNC_TOOLS
    /\ db.logs[Len(db.logs)].produced_qty = 1
    /\ hist.db0.part["PA"].stock_cut = 1
    /\ db.part["PA"].stock_cut = 0
    /\ db.part["PA"].stock_cnc_tools = hist.db0.part["PA"].stock_cnc_tools + 1

\* C17: a normal movement (not scrap, not external, job not deposit) into a
\* section other than assembly, for a job standing in product section p, takes
\* 1 from bucket p and adds 1 to the bucket of the new section and changes no
\* other counter; it is rejected with no stock change when bucket p is 0; on a
\* first entry nothing is taken.
C17_NormalMovementBuckets ==
    [][(Applied /\ NewLog.job # NONE /\ ~NewLog.is_scrap /\ ~NewLog.is_external
        /\ db.job[NewLog.job].job_label # "deposit" /\ NewLog.section # ASSEMBLY) =>
          LET p == db.job[NewLog.job].current_section
              pr == NewLog.product
              sec == NewLog.section
          IN IF p = NONE THEN
                 /\ last'.outcome = "ok"
                 /\ db'.stock = [db.stock EXCEPT ![pr][sec] = @ + 1]
                 /\ db'.part = db.part /\ db'.material = db.material
             ELSE IF db.stock[pr][p] < 1 THEN
                 /\ last'.outcome = "inventory_error"
                 /\ StockStore(db') = StockStore(db)
             ELSE
                 /\ last'.outcome = "ok"
                 /\ db'.stock = [[db.stock EXCEPT ![pr][p] = @ - 1] EXCEPT ![pr][sec] = @ + 1]
                 /\ db'.part = db.part /\ db'.material = db.material]_vars

\* C17 witness: a job standing in painting was moved into packaging; the one
\* painted unit left the painting bucket.
C17_Witness ==
    /\ last.op = "law_apply" /\ last.outcome = "ok" /\ last.section = PACKAGING
    /\ hist.prev = "painting"
    /\ hist.db0.job[last.job].job_label = "in_progress"
    /\ ~db.logs[Len(db.logs)].is_scrap /\ ~db.logs[Len(db.logs)].is_external
    /\ hist.db0.stock["chair"]["painting"] = 1
    /\ db.stock["chair"]["painting"] = 0
    /\ db.stock["chair"]["packaging"] = 1

\* C18: no movement of a deposit job changes a Part stock or a Material
\* quantity; a deposit scrap movement on the job's first entry is accepted,
\* changes no ProductStock bucket and leaves the job with status scrapped and
\* job_label scrapped.
C18_DepositConsumesNothing ==
    [][(Applied /\ NewLog.job # NONE /\ db.job[NewLog.job].job_label = "deposit") =>
          /\ db'.part = db.part
          /\ db'.material = db.material
          /\ (NewLog.is_scrap /\ db.job[NewLog.job].current_section = NONE) =>
                /\ last'.outcome = "ok"
                /\ db'.stock = db.stock
                /\ db'.job[NewLog.job].status = "scrapped"
                /\ db'.job[NewLog.job].job_label = "scrapped"]_vars

\* C18 witness: a deposit job was scrapped at assembly as its first entry
\* while the parts and the material of the BOM were in stock.
C18_Witness ==
    /\ last.op = "law_apply" /\ last.outcome = "ok" /\ last.section = ASSEMBLY
    /\ hist.db0.job[last.job].job_label = "deposit"
    /\ hist.prev = NONE
    /\ db.logs[Len(db.logs)].is_scrap
    /\ db.job[last.job].status = "scrapped"
    /\ db.part["PA"].stock_cnc_tools = 2
    /\ db.material["MB"] = 3

\* C19: an accepted scrap movement of a product job does not credit the bucket
\* of its own section and leaves the job with status scrapped, job_label
\* scrapped and finished_at set.
C19_ScrapClosesJob ==
    [][(Applied /\ last'.outcome = "ok" /\ NewLog.job # NONE /\ NewLog.is_scrap) =>
          /\ db'.stock[NewLog.product][NewLog.section]
                 <= db.stock[NewLog.product][NewLog.section]
          /\ db'.job[NewLog.job].status = "scrapped"
          /\ db'.job[NewLog.job].job_label = "scrapped"
          /\ db'.job[NewLog.job].finished_at]_vars

\* C19 witness: a warranty job standing in assembly was scrapped at painting;
\* the assembled unit was taken and the painting bucket stayed empty.
C19_Witness ==
    /\ last.op = "law_apply" /\ last.outcome = "ok" /\ last.section = "painting"
    /\ db.logs[Len(db.logs)].is_scrap
    /\ hist.prev = ASSEMBLY
    /\ hist.db0.job[last.job].job_label = "warranty"
    /\ hist.db0.stock["chair"]["assembly"] = 1
    /\ db.stock["chair"]["assembly"] = 0
    /\ db.stock["chair"]["painting"] = 0
    /\ db.job[last.job].status = "scrapped"
    /\ db.job[last.job].finished_at

\* C20: an external movement is accepted, adds 1 to the bucket of its own
\* section, changes no other stock counter, and sets the job's current_section
\* to that section and is_external_entry to true.
C20_ExternalCreditsOnly ==
    [][(Applied /\ NewLog.job # NONE /\ NewLog.is_external) =>
          /\ last'.outcome = "ok"
          /\ db'.stock = [db.stock EXCEPT ![NewLog.product][NewLog.section] = @ + 1]
          /\ db'.part = db.part
          /\ db'.material = db.material
          /\ db'.job[NewLog.job].current_section = NewLog.section
          /\ db'.job[NewLog.job].is_external_entry]_vars

\* C20 witness: an external entry into assembly for a job standing in
\* painting: the assembly bucket was credited, the painted unit and the BOM
\* stock stayed.
C20_Witness ==
    /\ last.op = "law_apply" /\ last.outcome = "ok" /\ last.section = ASSEMBLY
    /\ db.logs[Len(db.logs)].is_external
    /\ hist.prev = "painting"
    /\ db.stock["chair"]["painting"] = 1
    /\ db.stock["chair"]["assembly"] = hist.db0.stock["chair"]["assembly"] + 1
    /\ db.part["PA"].stock_cnc_tools = 2
    /\ db.material["MB"] = 3
    /\ db.job[last.job].is_external_entry

\* C21: a non-deposit scrap movement at assembly debits every BOM part's
\* stock_cnc_tools and every BOM material's quantity by its BOM qty, is
\* rejected exactly when a part or a material is short, and so has the effect
\* on Part and Material stock of a normal assembly entry of the same product
\* in the same state; the ProductStock rows differ only by the credit of
\* stock_assembly, which the scrap omits.
C21_ScrapAssemblyConsumesLikeNormal ==
    [][(Applied /\ NewLog.job # NONE /\ NewLog.is_scrap /\ NewLog.section = ASSEMBLY
        /\ db.job[NewLog.job].job_label # "deposit") =>
          LET log == [NewLog EXCEPT !.is_scrap = FALSE]
              normal == apply_inventory([db EXCEPT !.logs = Append(@, log)],
                                        log, db.job[NewLog.job])
              comps == get_components_for_product(NewLog.product)
              mats == get_materials_for_product(NewLog.product)
              short == \/ \E i \in 1..Len(comps) :
                             db.part[comps[i].part].stock_cnc_tools < comps[i].qty
                       \/ \E i \in 1..Len(mats) :
                             db.material[mats[i].material] < mats[i].qty
          IN /\ last'.outcome = "ok" <=> ~short
             /\ last'.outcome = "ok" <=> normal.ok
             /\ db'.part = normal.d.part
             /\ db'.material = normal.d.material
             /\ last'.outcome = "ok" =>
                   /\ \A i \in 1..Len(comps) :
                         db'.part[comps[i].part].stock_cnc_tools
                             = db.part[comps[i].part].stock_cnc_tools - comps[i].qty
                   /\ \A i \in 1..Len(mats) :
                         db'.material[mats[i].material]
                             = db.material[mats[i].material] - mats[i].qty
                   /\ db'.stock = db.stock
                   /\ normal.d.stock = [db.stock EXCEPT ![NewLog.product][ASSEMBLY] = @ + 1]
             /\ last'.outcome # "ok" => StockStore(db') = StockStore(db)]_vars

\* C21 witness: an in_progress job was scrapped at assembly: the BOM left the
\* part and material stock and stock_assembly was not credited.
C21_Witness ==
    /\ last.op = "law_apply" /\ last.outcome = "ok" /\ last.section = ASSEMBLY
    /\ db.logs[Len(db.logs)].is_scrap
    /\ hist.db0.job[last.job].job_label = "in_progress"
    /\ hist.db0.part["PA"].stock_cnc_tools = 2 /\ db.part["PA"].stock_cnc_tools = 0
    /\ db.part["PB"].stock_cnc_tools = 0
    /\ hist.db0.material["MB"] = 3 /\ db.material["MB"] = 0
    /\ db.stock["chair"][ASSEMBLY] = hist.db0.stock["chair"][ASSEMBLY]

\* C22: when a non-scrap movement closes a job, the status becomes repaired if
\* it was warranty and completed otherwise; the job_label changes only from
\* in_progress to completed, and only when the status became completed; no
\* apply turns a status other than warranty into repaired.
C22_ClosingStatusAndLabel ==
    [][(Applied /\ last'.outcome = "ok" /\ NewLog.job # NONE) =>
          LET before == db.job[NewLog.job]
              after == db'.job[NewLog.job]
          IN /\ (~NewLog.is_scrap
                 /\ ClosingSection(before.allowed_sections, NewLog.section)) =>
                    /\ after.finished_at
                    /\ after.status = IF before.status = "warranty"
                                      THEN "repaired" ELSE "completed"
                    /\ after.job_label =
                          IF before.job_label = "in_progress" /\ after.status = "completed"
                          THEN "completed" ELSE before.job_label
             /\ (after.status = "repaired" /\ before.status # "repaired") =>
                    before.status = "warranty"]_vars

\* C22 witness: a deposit job was closed by its painting entry: the status is
\* completed and the label is still deposit.
C22_Witness ==
    /\ last.op = "law_apply" /\ last.outcome = "ok" /\ last.section = "painting"
    /\ ~db.logs[Len(db.logs)].is_scrap
    /\ hist.db0.job[last.job].job_label = "deposit"
    /\ db.job[last.job].allowed_sections = <<"painting", "assembly">>
    /\ db.job[last.job].status = "completed"
    /\ db.job[last.job].job_label = "deposit"
    /\ db.job[last.job].finished_at

\* The sequence s without the elements at the positions in gone.
Without(s, gone) ==
    LET kept == SelectSeq([i \in 1..Len(s) |-> i], LAMBDA i : i \notin gone)
    IN [i \in 1..Len(kept) |-> s[kept[i]]]

\* The call just made deleted exactly the job's logs whose section is in
\* flow[target:current] (cursors clamped) and returned their number.
DeletesSlice ==
    LET c == hist'.call
        n == Len(c.flow)
        target == Max(0, Min(c.target, n))
        current == Max(target, Min(c.current, n))
        slice == {c.flow[i] : i \in (target + 1)..current}
        gone == {i \in JobLogs(db, last'.job) : db.logs[i].section \in slice}
    IN /\ db'.logs = Without(db.logs, gone)
       /\ hist'.ret.removed = Cardinality(gone)

\* The call just made returned flow[target-1], or None when target is 0.
ReturnsElementBeforeTarget ==
    LET c == hist'.call
        target == Max(0, Min(c.target, Len(c.flow)))
    IN hist'.ret.new_current = IF target = 0 THEN NONE ELSE c.flow[target]

\* C23, as claimed: rewind_job_progress(job, flow, target, current), with target
\* clamped into [0, len(flow)] and current into [target, len(flow)], deletes
\* exactly the job's logs whose section is in flow[target:current], leaves
\* every other log untouched, and returns the number of deleted logs with
\* flow[target-1], or with None when target is 0.
C23_RewindContract ==
    [][last'.op = "rewind" => DeletesSlice /\ ReturnsElementBeforeTarget]_vars

\* C23, amended: the same for a non-empty flow; for an empty flow the call
\* deletes nothing and returns 0 with the job's current_section.
C23_RewindContractNonEmptyFlow ==
    [][last'.op = "rewind" =>
          /\ DeletesSlice
          /\ IF hist'.call.flow # <<>> THEN ReturnsElementBeforeTarget
             ELSE hist'.ret.new_current = db.job[last'.job].current_section]_vars

\* C23 witness: with flow <<assembly, painting, packaging>>, target 1 and
\* current 2, the painting log was deleted although the packaging log is newer;
\* the assembly and packaging logs stay and assembly is returned.
C23_Witness ==
    /\ last.op = "rewind"
    /\ hist.call = [flow |-> <<"assembly", "painting", "packaging">>,
                    target |-> 1, current |-> 2]
    /\ hist.ret = [removed |-> 1, new_current |-> "assembly"]
    /\ Len(hist.db0.logs) = 5
    /\ hist.db0.logs[3].section = "painting"
    /\ hist.db0.logs[4].section = "packaging"
    /\ Len(db.logs) = 4
    /\ db.logs[2].section = "assembly" /\ db.logs[3].section = "packaging"

\* The duplicate-free lists holding the same slugs as allowed.
Reorderings(allowed) ==
    {b \in [1..Len(allowed) -> Range(allowed)] : Range(b) = Range(allowed)}

\* flow holds the slugs of allowed, each once, in the order of ORDER.
IsCanonicalFlow(flow, allowed) ==
    /\ Range(flow) = Range(allowed)
    /\ \A i, k \in 1..Len(flow) :
          i < k => \E x, y \in 1..Len(ORDER) : ORDER[x] = flow[i] /\ ORDER[y] = flow[k] /\ x < y

\* C24: for a product job with non-empty allowed_sections the flow is the
\* canonical order filtered to the allowed slugs, and storing the same slugs in
\* any other order changes neither the flow and the progress cursor, nor the
\* closing section, nor the gating predecessor of any section, nor the outcome
\* and effect of any movement submission or job edit.
C24_FlowIgnoresStoredOrder ==
    \A jn \in JobNumbers :
        (db.job[jn].exists /\ db.job[jn].allowed_sections # <<>>) =>
            LET a == db.job[jn].allowed_sections IN
            /\ IsCanonicalFlow(allowed_norm(a), a)
            /\ build_progress_state(db, jn, a).flow = allowed_norm(a)
            /\ \A b \in Reorderings(a) :
                  LET dbb == [db EXCEPT !.job[jn].allowed_sections = b] IN
                  /\ build_progress_state(dbb, jn, b) = build_progress_state(db, jn, a)
                  /\ \A s \in ProductSections :
                        /\ should_close(dbb.job[jn], s) = should_close(db.job[jn], s)
                        /\ gating_prev(b, s) = gating_prev(a, s)
                  /\ \A path \in {"worker", "manager"}, s \in SubmitSections :
                        LET r == work_entry(db, path, jn, "chair", s, FALSE, FALSE)
                            rb == work_entry(dbb, path, jn, "chair", s, FALSE, FALSE)
                        IN /\ rb.outcome = r.outcome
                           /\ rb.d = [r.d EXCEPT !.job[jn].allowed_sections = b]
                  /\ \A cursor \in 0..1 :
                        job_edit(dbb, jn, "chair", "in_progress", a, cursor)
                            = job_edit(db, jn, "chair", "in_progress", a, cursor)

\* C24 witness: a job stored with <<packaging, painting, assembly>> went
\* through assembly and painting in the manager view and is still open.
C24_Witness ==
    /\ last.op = "work_entry" /\ last.outcome = "ok" /\ last.section = "painting"
    /\ db.job[last.job].allowed_sections = <<"packaging", "painting", "assembly">>
    /\ db.logs[Len(db.logs) - 1].section = ASSEMBLY
    /\ db.logs[Len(db.logs) - 1].job = last.job
    /\ db.job[last.job].current_section = "painting"
    /\ ~db.job[last.job].finished_at

\* Every log of every job is paired by _collect_log_history with the
\* current_section its job had when the log was applied.
Fidelity(d, h) ==
    \A jn \in JobNumbers :
        LET positions == job_log_positions(d, jn) IN
        \A k \in 1..Len(positions) :
            prev_section_of(d, positions, k) = h.read[jn][d.logs[positions[k]].section]

\* C25: after any sequence of accepted movements, rewinds and job edits, for
\* every log of a job, the previous section _collect_log_history pairs with it
\* (the section of the job's log just before it, None for the first) is the
\* current_section apply_inventory read when the log was applied.
C25_HistoryFidelity == ~hist.stray => Fidelity(db, hist)

\* C26: once a job is closed (finished_at set), a movement submission for it
\* is not accepted and adds no log, as long as no rewind has reopened it.
C26_ClosedJobTakesNoMovement ==
    [][(last'.op = "work_entry" /\ db.job[last'.job].exists
        /\ db.job[last'.job].finished_at) =>
          /\ last'.outcome # "ok"
          /\ db'.logs = db.logs]_vars

\* The position of the job's non-scrap, non-external assembly log, if any.
AssemblyLogs(d, jn) ==
    {i \in JobLogs(d, jn) : /\ d.logs[i].section = ASSEMBLY
                            /\ ~d.logs[i].is_scrap /\ ~d.logs[i].is_external}

\* C27: whatever job_label edits were made after the assembly log of a job
\* without scrap logs was applied, a delete_job_completely or a rewind that
\* removes that log leaves
\* the Part stocks and Material quantities as they were before the log was
\* applied: the BOM is credited back if and only if it was debited.
C27_LabelEditKeepsRollbackExact ==
    [][(last'.op \in {"delete_job", "job_edit"}
        /\ AssemblyLogs(db, last'.job) # {}
        /\ AssemblyLogs(db', last'.job) = {}
        /\ \A i \in JobLogs(db, last'.job) : ~db.logs[i].is_scrap
        /\ hist.has_base[last'.job] /\ hist.clean[last'.job]) =>
          /\ db'.part = hist.before[last'.job][ASSEMBLY].part
          /\ db'.material = hist.before[last'.job][ASSEMBLY].material]_vars

\* The sum of the seven ProductStock buckets of a product.
RECURSIVE BucketSum(_, _, _)
BucketSum(d, product, i) ==
    IF i > Len(ORDER) THEN 0
    ELSE d.stock[product][ORDER[i]] + BucketSum(d, product, i + 1)

\* The jobs of a product that have a log and whose most recent log is not a
\* scrap log.
UnitHolders(d, product) ==
    {jn \in JobNumbers :
        /\ d.job[jn].exists /\ d.job[jn].product = product
        /\ LET positions == job_log_positions(d, jn) IN
           /\ positions # <<>>
           /\ ~d.logs[positions[Len(positions)]].is_scrap}

\* C28: as long as the stock was moved by accepted, non-external movements
\* only, on jobs whose creation moved no stock, the seven buckets of every
\* product add up to the number of its jobs that have a log and whose most
\* recent log is not a scrap log.
C28_UnitConservation ==
    (hist.pure /\ \A i \in 1..Len(db.logs) : ~db.logs[i].is_external) =>
        \A product \in Products :
            BucketSum(db, product, 1) = Cardinality(UnitHolders(db, product))

ClosedStatuses == {"completed", "scrapped", "repaired"}

\* C29, as claimed: in every reachable state a job has finished_at set if and
\* only if its status is completed, scrapped or repaired.
C29_FinishedIffClosedStatus ==
    \A jn \in JobNumbers :
        db.job[jn].exists =>
            (db.job[jn].finished_at <=> db.job[jn].status \in ClosedStatuses)

\* C29, amended: a job whose status is completed, scrapped or repaired has
\* finished_at set; a job with finished_at set has one of these statuses, or
\* is a deposit job with exactly one allowed section and status in_progress
\* (closed at its creation).
C29_FinishedIffClosedOrDepositCreated ==
    \A jn \in JobNumbers :
        db.job[jn].exists =>
            /\ db.job[jn].status \in ClosedStatuses => db.job[jn].finished_at
            /\ db.job[jn].finished_at =>
                  \/ db.job[jn].status \in ClosedStatuses
                  \/ /\ db.job[jn].job_label = "deposit"
                     /\ Len(db.job[jn].allowed_sections) = 1
                     /\ db.job[jn].status = "in_progress"

\* C29 witness: a job scrapped by a movement was reopened by a rewinding edit
\* that kept the label scrapped: the status is in_progress and finished_at is
\* cleared.
C29_Witness ==
    /\ last.op = "job_edit"
    /\ db.job[last.job].job_label = "scrapped"
    /\ db.job[last.job].status = "in_progress"
    /\ ~db.job[last.job].finished_at
    /\ JobLogs(db, last.job) = {}
    /\ Len(db.logs) < Len(hist.db0.logs) + 1
    /\ hist.read[last.job][ASSEMBLY] = NONE /\ hist.has_base[last.job]

\* C30: the consumption preview agrees with the ledger: every accepted
\* movement of a job raises the part and material quantities reported by
\* _compute_job_consumption for the job by what apply_inventory debited from
\* Part.stock_cnc_tools and Material.quantity, for every job label including
\* deposit.
C30_PreviewMatchesLedger ==
    [][Submitted("ok") =>
          LET before == compute_job_consumption(db, last'.job)
              after == compute_job_consumption(db', last'.job)
          IN /\ \A p \in Parts :
                   after.parts[p] - before.parts[p]
                       = db.part[p].stock_cnc_tools - db'.part[p].stock_cnc_tools
             /\ \A m \in Materials :
                   after.materials[m] - before.materials[m]
                       = db.material[m] - db'.material[m]]_vars

====
